---- MODULE Spec2Model ----
(***************************************************************************)
(* Riparr request fulfilment pipeline: the request state machine           *)
(* (backend/download_service.py), the resolver and the acquisition         *)
(* coordinator (backend/streamrip_service.py), the query normalizer        *)
(* (backend/musicbrainz_service.py) and the intake and background          *)
(* executor (backend/app.py).                                              *)
(*                                                                         *)
(* Strings that the code inspects character by character (search queries)  *)
(* are sequences of one-character strings.  Messages are sequences of      *)
(* string parts, so that a formatted message keeps the values formatted    *)
(* into it; the absent message (None) is the empty sequence.               *)
(***************************************************************************)
EXTENDS Integers, Sequences, FiniteSets, TLC

VARIABLES
    q,          \* SpecClean: the input string of clean_search_query
    nq,         \* SpecClean: clean_search_query(q), once computed
    nnq,        \* SpecClean: clean_search_query(nq), once computed
    sRow,       \* SpecSearch: the request row _search_content works on
    sResp,      \* SpecSearch: what each backend answers to each query
    sRet,       \* SpecSearch: what smart_search and _search_content returned
    aCall,      \* SpecAcquire: the acquisition call and what the transfer does in it
    aRet,       \* SpecAcquire: what the acquisition call returned
    rows,       \* the music_requests table: request id -> row
    runs,       \* the background units: where each run_process thread stands
    fs,         \* the directories that exist: path -> what the directory holds
    seen,       \* per request, the status values that have been persisted so far
    picard,     \* the PICARD_ENABLED setting
    logged,     \* what run_process logged last about a process_request call
    socketio,   \* the socketio given to the DownloadService, or NoValue
    events,     \* the status commits and publishes of the latest pipeline step, in order
    library,    \* the jellyfin_library table: Jellyfin id -> item
    availSeen,  \* the (title, artist) create_request answered "already available" for
    pStage,     \* SpecPlace: the staged root of an album request, as a tree;
                \* SpecMove: the content type and the staged root;
                \* SpecPath: the artist, title, album and pattern of a request
    pDest,      \* SpecPlace: the destination directory before placement, as a tree
    pOut,       \* SpecPlace, SpecMove: the outcome of placing pStage into pDest;
                \* SpecPath: the destination path computed for pStage
    pAgain,     \* SpecPlace: the outcome of placing pStage into the destination once more
    lConf,      \* SpecLimiter: the downloads settings of the streamrip configuration
    lSems,      \* SpecLimiter: _loop_semaphores, key -> the value of the semaphore
    lHeld,      \* SpecLimiter: the transfers inside `async with` of the limiter
    gCall,      \* SpecGather: the backend list of a streaming search and each backend's answer
    gDone,      \* SpecGather: the search tasks that have finished
    gRet,       \* SpecGather: what parallel_search returned and search_streaming answered
    hReq,       \* SpecList: a GET of /api/requests: its session and the stored requests
    hResp,      \* SpecList: the response to it
    cConf,      \* SpecConfig: the service's config reference, its loop and the config objects
    cCalls      \* SpecConfig: the concurrent acquisition calls: position, local config, folder written to

cleanVars == <<q, nq, nnq>>

searchVars == <<sRow, sResp, sRet>>

acquireVars == <<aCall, aRet>>

pipeVars == <<rows, runs, fs, seen, picard, logged, socketio, events>>

intakeVars == <<library, availSeen>>

placeVars == <<pStage, pDest, pOut, pAgain>>

limiterVars == <<lConf, lSems, lHeld>>

gatherVars == <<gCall, gDone, gRet>>

httpVars == <<hReq, hResp>>

confVars == <<cConf, cCalls>>

moreVars == <<gatherVars, httpVars, confVars>>

restVars == <<placeVars, limiterVars, moreVars>>

pureVars == <<cleanVars, searchVars, acquireVars, restVars>>

vars == <<cleanVars, searchVars, acquireVars, pipeVars, intakeVars, restVars>>

Range(s) == {s[i] : i \in DOMAIN s}

None == <<>>

Pending == <<"<pending>">>

(***************************************************************************)
(* Bounds                                                                  *)
(***************************************************************************)
MaxLen == 3

MaxTracks == 3

MaxReqs == 1

MaxRuns == 2

MaxConnections == 2

\* The longest backend list given to a streaming search.
MaxServices == 2

\* The most requests stored when the list is asked for.
MaxListed == 2

\* The acquisition calls that run at the same time on one service.
MaxCalls == 2

MaxTransfers == 3

(***************************************************************************)
(* Normalizer: MusicBrainzService.clean_search_query                       *)
(***************************************************************************)
\* The characters the model draws strings from: a letter, a digit, the
\* underscore (all three match \w), a space and a tab (both match \s), the
\* hyphen, and two characters the pattern [^\w\s-] removes.
Chars == {"a", "7", "_", " ", "\t", "-", "!", "."}

WordChars == {"a", "7", "_"}

SpaceChars == {" ", "\t"}

RECURSIVE StringsUpTo(_)
StringsUpTo(n) ==
    IF n = 0 THEN {<<>>}
    ELSE LET shorter == StringsUpTo(n - 1)
         IN  shorter \cup {Append(s, c) : s \in {t \in shorter : Len(t) = n - 1}, c \in Chars}

\* re.sub(r'[^\w\s-]', '', query): every character outside \w, \s and "-" is dropped.
Kept(c) == c \in WordChars \cup SpaceChars \cup {"-"}

StripSpecial(s) == SelectSeq(s, Kept)

\* str.split(): the maximal runs of non-whitespace characters, in order.
RECURSIVE SplitFrom(_, _, _, _)
SplitFrom(s, i, cur, acc) ==
    IF i > Len(s)
    THEN IF cur = <<>> THEN acc ELSE Append(acc, cur)
    ELSE IF s[i] \in SpaceChars
         THEN SplitFrom(s, i + 1, <<>>, IF cur = <<>> THEN acc ELSE Append(acc, cur))
         ELSE SplitFrom(s, i + 1, Append(cur, s[i]), acc)

Split(s) == SplitFrom(s, 1, <<>>, <<>>)

\* ' '.join(words)
RECURSIVE Join(_)
Join(words) ==
    IF words = <<>> THEN <<>>
    ELSE IF Len(words) = 1 THEN words[1]
    ELSE words[1] \o <<" ">> \o Join(Tail(words))

\* A normalizer that collapses whitespace before it removes the special
\* characters: removing a character between two spaces leaves a double space.
clean_collapse_first(query) == StripSpecial(Join(Split(query)))

clean_search_query(query) == Join(Split(StripSpecial(query)))

(***************************************************************************)
(* Request rows: MusicRequest                                              *)
(***************************************************************************)
\* The value of an unset string column (streaming_service, streaming_url,
\* download_path): Python's None, falsy like the empty string.
NoValue == "None"

\* A path is the sequence of its parts; no path is the empty sequence.
NoPath == <<>>

Statuses == {"pending", "searching", "downloading", "processing", "completed", "failed"}

ContentTypes == {"song", "album", "artist"}

\* The row create_request inserts: status defaults to PENDING, every column
\* the constructor is not given is NULL.
NewRow(content_type, title, artist, service, url) ==
    [content_type |-> content_type, title |-> title, artist |-> artist, album |-> None,
     musicbrainz_id |-> NoValue, musicbrainz_release_group_id |-> NoValue,
     streaming_service |-> service, streaming_url |-> url,
     status |-> "pending", error_message |-> None,
     download_path |-> NoPath, file_size |-> -1, completed_at |-> NoValue]

(***************************************************************************)
(* Resolver: StreamripService.smart_search and its use in _search_content  *)
(***************************************************************************)
PrimaryService == "qobuz"

FallbackService == "deezer"

\* What a backend can answer to one search: no item, one item, two items, or
\* a failure of the search (login, transport).
Shapes == {"empty", "one", "two", "error"}

\* _normalize_track / _normalize_album: an item carries its id, the artist
\* _extract_artist found, and the service it came from.
Item(id, service) == [id |-> id, artist |-> <<"z">>, service |-> service]

\* search_track_async / search_album_async: (items, None), or (None, str(e))
\* when the client raised; a missing result list and an empty one are both
\* "no results" to every caller.
SearchReturn(shape, service) ==
    CASE shape = "empty" -> [results |-> <<>>, error |-> None]
      [] shape = "one"   -> [results |-> <<Item("id1", service)>>, error |-> None]
      [] shape = "two"   -> [results |-> <<Item("id2", service), Item("id1", service)>>,
                             error |-> None]
      [] shape = "error" -> [results |-> <<>>, error |-> <<service, " login failed">>]

\* search_track(query, service) for content_type 'track', search_album
\* otherwise; resp is the answer of every backend to every query.
Search(content_type, query, service, resp) ==
    SearchReturn(resp[<<content_type, service, query>>], service)

NoResultsAnyService == <<"No results found on any streaming service">>

NoResultsStreaming == <<"No results found on streaming services">>

\* Python's `a or b` on messages.
OrElse(a, b) == IF a # None THEN a ELSE b

SmartReturn(results, service, error) ==
    [results |-> results, service |-> service, error |-> error]

\* A resolver that reports the primary backend as the winner whatever
\* backend produced the items.
smart_search_primary_wins(query, content_type, use_fallback, resp) ==
    LET cleaned == clean_search_query(query)
        tries == <<Search(content_type, query, PrimaryService, resp),
                   Search(content_type, cleaned, PrimaryService, resp),
                   Search(content_type, query, FallbackService, resp),
                   Search(content_type, cleaned, FallbackService, resp)>>
        hits == {i \in 1..4 : Len(tries[i].results) > 0}
    IN  IF hits = {} THEN SmartReturn(<<>>, NoValue, OrElse(tries[4].error, NoResultsAnyService))
        ELSE LET i == CHOOSE j \in hits : \A k \in hits : j <= k
             IN  SmartReturn(tries[i].results, PrimaryService, None)

\* A resolver that keeps the first error it met instead of the last one.
smart_search_first_error(query, content_type, use_fallback, resp) ==
    LET cleaned == clean_search_query(query)
        tries == <<Search(content_type, query, PrimaryService, resp),
                   Search(content_type, cleaned, PrimaryService, resp),
                   Search(content_type, query, FallbackService, resp),
                   Search(content_type, cleaned, FallbackService, resp)>>
        hits == {i \in 1..4 : Len(tries[i].results) > 0}
        errs == {i \in 1..4 : tries[i].error # None}
    IN  IF hits = {}
        THEN SmartReturn(<<>>, NoValue,
                         IF errs = {} THEN NoResultsAnyService
                         ELSE tries[CHOOSE j \in errs : \A k \in errs : j <= k].error)
        ELSE LET i == CHOOSE j \in hits : \A k \in hits : j <= k
             IN  SmartReturn(tries[i].results,
                             IF i <= 2 THEN PrimaryService ELSE FallbackService, None)

\* A resolver that gives up with the primary backend's error when its
\* first search fails.
smart_search_stops_at_error(query, content_type, use_fallback, resp) ==
    LET cleaned == clean_search_query(query)
        tries == <<Search(content_type, query, PrimaryService, resp),
                   Search(content_type, cleaned, PrimaryService, resp),
                   Search(content_type, query, FallbackService, resp),
                   Search(content_type, cleaned, FallbackService, resp)>>
        hits == {i \in 1..4 : Len(tries[i].results) > 0}
    IN  IF tries[1].error # None THEN SmartReturn(<<>>, NoValue, tries[1].error)
        ELSE IF hits = {}
        THEN SmartReturn(<<>>, NoValue, OrElse(tries[4].error, NoResultsAnyService))
        ELSE LET i == CHOOSE j \in hits : \A k \in hits : j <= k
             IN  SmartReturn(tries[i].results,
                             IF i <= 2 THEN PrimaryService ELSE FallbackService, None)

\* smart_search, lines 571-614.
smart_search(query, content_type, use_fallback, resp) ==
    LET first == Search(content_type, query, PrimaryService, resp)
        cleaned_query == clean_search_query(query)
        second == IF cleaned_query # query
                  THEN Search(content_type, cleaned_query, PrimaryService, resp)
                  ELSE first
    IN  IF Len(first.results) > 0
        THEN SmartReturn(first.results, PrimaryService, None)
        ELSE IF cleaned_query # query /\ Len(second.results) > 0
        THEN SmartReturn(second.results, PrimaryService, None)
        ELSE IF use_fallback /\ FallbackService # NoValue
        THEN LET third == Search(content_type, query, FallbackService, resp)
                 fourth == IF cleaned_query # query
                           THEN Search(content_type, cleaned_query, FallbackService, resp)
                           ELSE third
             IN  IF Len(third.results) > 0
                 THEN SmartReturn(third.results, FallbackService, None)
                 ELSE IF cleaned_query # query /\ Len(fourth.results) > 0
                 THEN SmartReturn(fourth.results, FallbackService, None)
                 ELSE SmartReturn(<<>>, NoValue, OrElse(fourth.error, NoResultsAnyService))
        ELSE SmartReturn(<<>>, NoValue, OrElse(second.error, NoResultsAnyService))

\* What a search task of parallel_search can come to: one of the answers
\* of search_track_async / search_album_async, or an exception that leaves
\* the task (the session close in its finally block raises).
TaskShapes == Shapes \cup {"raised"}

CloseFailed == <<"close failed">>

\* Python's "; ".join(errors) on messages; no error at all is None.
RECURSIVE JoinErrors(_)
JoinErrors(errors) ==
    IF errors = <<>> THEN None
    ELSE IF Len(errors) = 1 THEN errors[1]
    ELSE errors[1] \o <<"; ">> \o JoinErrors(Tail(errors))

\* The loop of parallel_search, lines 330-341, from task i on.
RECURSIVE Collect(_, _, _, _, _)
Collect(services, shapes, i, all_results, errors) ==
    IF i > Len(services) THEN [results |-> all_results, error |-> JoinErrors(errors)]
    ELSE LET service == services[i]
         IN  IF shapes[i] = "raised"
             THEN Collect(services, shapes, i + 1, all_results,
                          Append(errors, <<service, ": ">> \o CloseFailed))
             ELSE LET res == SearchReturn(shapes[i], service)
                  IN  Collect(services, shapes, i + 1, all_results \o res.results,
                              IF res.error # None
                              THEN Append(errors, <<service, ": ">> \o res.error)
                              ELSE errors)

\* A parallel_search that gives up the items when some backend failed.
parallel_search_all_or_nothing(services, shapes) ==
    LET got == Collect(services, shapes, 1, <<>>, <<>>)
    IN  IF got.error # None THEN [got EXCEPT !.results = <<>>] ELSE got

\* parallel_search, lines 316-346, once asyncio.gather has every task's
\* result.
parallel_search(services, shapes) == Collect(services, shapes, 1, <<>>, <<>>)

\* search_streaming, lines 366-375: 500 with the error when there is an
\* error and no item, else 200 with the items and the error.
search_streaming(services, shapes) ==
    LET got == parallel_search(services, shapes)
    IN  IF got.results = <<>> /\ got.error # None
        THEN [http |-> 500, results |-> <<>>, error |-> got.error]
        ELSE [http |-> 200, results |-> got.results, error |-> got.error]

\* One search call of smart_search: the backend, the query and whether the
\* query is the raw or the normalized one.
Attempt(service, query, form) == [service |-> service, query |-> query, form |-> form]

\* Whether a search call came back with items.
Hit(content_type, a, resp) == Len(Search(content_type, a.query, a.service, resp).results) > 0

\* A resolver that asks the fallback backend before it retries the primary
\* with the normalized query.
smart_search_attempts_backends_first(query, content_type, use_fallback, resp) ==
    LET cleaned_query == clean_search_query(query)
        order == <<Attempt(PrimaryService, query, "raw"),
                   Attempt(FallbackService, query, "raw"),
                   Attempt(PrimaryService, cleaned_query, "normalized"),
                   Attempt(FallbackService, cleaned_query, "normalized")>>
        hits == {i \in 1..4 : Hit(content_type, order[i], resp)}
    IN  IF hits = {} THEN order
        ELSE SubSeq(order, 1, CHOOSE i \in hits : \A j \in hits : i <= j)

\* The search calls smart_search makes, lines 574-612, in the order it
\* makes them.
smart_search_attempts(query, content_type, use_fallback, resp) ==
    LET cleaned_query == clean_search_query(query)
        a1 == Attempt(PrimaryService, query, "raw")
        a2 == Attempt(PrimaryService, cleaned_query, "normalized")
        a3 == Attempt(FallbackService, query, "raw")
        a4 == Attempt(FallbackService, cleaned_query, "normalized")
        primary == IF Hit(content_type, a1, resp) \/ cleaned_query = query
                   THEN <<a1>> ELSE <<a1, a2>>
        fallback == IF Hit(content_type, a3, resp) \/ cleaned_query = query
                    THEN <<a3>> ELSE <<a3, a4>>
    IN  IF Hit(content_type, primary[Len(primary)], resp)
           \/ ~(use_fallback /\ FallbackService # NoValue)
        THEN primary
        ELSE primary \o fallback

\* _search_content, line 136: a search is made unless both parts of the
\* acquisition identity are set.
NeedsSearch(row) == row.streaming_url = NoValue \/ row.streaming_service = NoValue

\* _search_content, lines 138-142: the query and the kind searched for.
SearchQuery(row) == IF row.artist # None THEN row.title \o <<" ">> \o row.artist ELSE row.title

SearchKind(row) == IF row.content_type = "song" THEN "track" ELSE "album"

\* The searches smart_search can make for a row: each backend, with the raw
\* and with the normalized query.
RespKeys(row) ==
    {<<SearchKind(row), s, qq>> : s \in {PrimaryService, FallbackService},
                                  qq \in {SearchQuery(row), clean_search_query(SearchQuery(row))}}

\* _search_content, lines 145-163: search, then store the first result as the
\* acquisition identity and fill in a missing artist.  The row is returned as
\* it is flushed at line 163.
SearchAndStore(row, resp) ==
    LET ret == smart_search(SearchQuery(row), SearchKind(row), TRUE, resp)
    IN  IF Len(ret.results) = 0
        THEN [row |-> row, ok |-> FALSE, error |-> OrElse(ret.error, NoResultsStreaming),
              ret |-> ret]
        ELSE LET best_match == ret.results[1]
             IN  [row |-> [row EXCEPT !.streaming_service = ret.service,
                                      !.streaming_url = best_match.id,
                                      !.artist = IF row.artist = None /\ best_match.artist # None
                                                 THEN best_match.artist ELSE @],
                   ok |-> TRUE, error |-> None, ret |-> ret]

\* What the metadata lookup (MusicBrainzService.search_song / search_album)
\* can do: return a candidate, return none, fail (its own except block
\* returns (None, text)), or raise.
MbOutcomes == {"found", "none", "error", "raise"}

\* _search_content, lines 165-182: backfill of the canonical id when neither
\* id is set; whatever the lookup does, the step goes on.
MbBackfill(row, mb) ==
    IF row.musicbrainz_id = NoValue /\ row.musicbrainz_release_group_id = NoValue /\ mb = "found"
    THEN IF row.content_type = "song"
         THEN [row EXCEPT !.musicbrainz_id = "mbid"]
         ELSE [row EXCEPT !.musicbrainz_release_group_id = "mbid"]
    ELSE row

\* A _search_content without the try around the lookup: an exception of the
\* lookup ends the step.
search_content_lookup_propagates(row, resp, mb) ==
    LET found == IF NeedsSearch(row) THEN SearchAndStore(row, resp)
                 ELSE [row |-> row, ok |-> TRUE, error |-> None, ret |-> <<>>]
    IN  IF ~found.ok THEN found
        ELSE IF mb = "raise"
        THEN [found EXCEPT !.ok = FALSE, !.error = <<"lookup failed">>]
        ELSE [found EXCEPT !.row = MbBackfill(found.row, mb)]

\* _search_content as a whole on one row.
search_content(row, resp, mb) ==
    IF NeedsSearch(row)
    THEN LET found == SearchAndStore(row, resp)
         IN  IF found.ok THEN [found EXCEPT !.row = MbBackfill(found.row, mb)] ELSE found
    ELSE [row |-> MbBackfill(row, mb), ok |-> TRUE, error |-> None, ret |-> <<>>]

(***************************************************************************)
(* Acquisition coordinator: StreamripService.download_track_async and      *)
(* download_album_async                                                    *)
(***************************************************************************)
Digits == <<"0", "1", "2", "3", "4", "5", "6", "7", "8", "9">>

\* str(n) as an f-string formats it: the decimal digits of n.
RECURSIVE Str(_)
Str(n) == IF n < 10 THEN <<Digits[n + 1]>> ELSE Str(n \div 10) \o <<Digits[(n % 10) + 1]>>

\* The extensions download_album_async counts (line 540).
AudioExtensions == {".flac", ".mp3", ".m4a", ".alac", ".ogg", ".wav", ".wma", ".aac", ".opus"}

\* The files a transfer can write: numbered tracks, every second one with an
\* upper-case ending, and a cover image.  A file name is the sequence of its
\* parts, the ending last.
TrackFile(i) == Str(i) \o <<IF i % 2 = 1 THEN ".flac" ELSE ".MP3">>

CoverFile == <<"cover", ".jpg">>

FilesUpTo(n) == {TrackFile(i) : i \in 1..n} \cup {CoverFile}

\* str.lower() on the file endings and the exception texts of the model.
Lower(part) ==
    CASE part = ".MP3" -> ".mp3"
      [] part = "Marked As Downloaded" -> "marked as downloaded"
      [] OTHER -> part

\* f.lower().endswith((...)) at line 540.
IsAudio(f) == Lower(f[Len(f)]) \in AudioExtensions

\* Lines 537-541: the number of files under the album folder with an audio ending.
CountAudio(files) == Cardinality({f \in files : IsAudio(f)})

\* The texts an exception of the transfer can carry.
ExceptionTexts == {<<"connection reset">>, <<"Album ", "already downloaded">>,
                   <<"Item ", "Marked As Downloaded", " in database">>}

\* Lines 499 and 563: "already downloaded" or "marked as downloaded" occurs
\* in the lower-cased text of the exception.
SaysAlreadyDownloaded(e) ==
    \E i \in DOMAIN e : Lower(e[i]) \in {"already downloaded", "marked as downloaded"}

Success == [ok |-> TRUE, error |-> None]

Failure(msg) == [ok |-> FALSE, error |-> msg]

\* What the transfer does in one call: it raises (at login, at resolve or
\* in rip), resolve returns nothing, or rip returns.  `expected` is
\* len(album.tracks), `files` the listing of the item's folder afterwards and
\* `output` whether the track's output file exists.
TransfersUpTo(n) ==
    [outcome : {"raises"}, at : {"login", "resolve", "rip"}, exc : ExceptionTexts,
     expected : 0..n, files : SUBSET FilesUpTo(n), output : BOOLEAN]
    \cup [outcome : {"resolve_none"}, at : {"resolve"}, exc : {None},
          expected : 0..n, files : SUBSET FilesUpTo(n), output : BOOLEAN]
    \cup [outcome : {"returns"}, at : {"rip"}, exc : {None},
          expected : 0..n, files : SUBSET FilesUpTo(n), output : BOOLEAN]

IncompleteDownload(actual, expected) ==
    <<"Incomplete download: ">> \o Str(actual) \o <<"/">> \o Str(expected) \o <<" tracks saved">>

\* A coordinator that reports only how many files it found.
download_album_actual_only(t) ==
    IF t.outcome = "raises"
    THEN IF SaysAlreadyDownloaded(t.exc) THEN Success ELSE Failure(t.exc)
    ELSE IF t.outcome = "resolve_none"
    THEN Failure(<<"Failed to resolve album metadata (resolve returned None)">>)
    ELSE LET actual_files == CountAudio(t.files)
         IN  IF actual_files = 0
             THEN Failure(<<"Album download failed (no files produced)">>)
             ELSE IF actual_files < t.expected
             THEN Failure(<<"Incomplete download: ">> \o Str(actual_files) \o <<" tracks saved">>)
             ELSE Success

download_album_async(t) ==
    IF t.outcome = "raises"
    THEN IF SaysAlreadyDownloaded(t.exc) THEN Success ELSE Failure(t.exc)
    ELSE IF t.outcome = "resolve_none"
    THEN Failure(<<"Failed to resolve album metadata (resolve returned None)">>)
    ELSE LET expected_tracks == t.expected
             actual_files == CountAudio(t.files)
         IN  IF actual_files = 0
             THEN Failure(<<"Album download failed (no files produced)">>)
             ELSE IF actual_files < expected_tracks
             THEN Failure(IncompleteDownload(actual_files, expected_tracks))
             ELSE Success

download_track_async(t) ==
    IF t.outcome = "raises"
    THEN IF SaysAlreadyDownloaded(t.exc) THEN Success ELSE Failure(t.exc)
    ELSE IF t.outcome = "resolve_none"
    THEN Failure(<<"Failed to resolve track metadata (resolve returned None)">>)
    ELSE IF ~t.output
    THEN Failure(<<"Download failed (output file missing)">>)
    ELSE Success

\* The downloads stores a streamrip Database can be built on: the shared
\* Downloads table of self.db, and Dummy, which holds nothing and records
\* nothing.
SharedDownloads == "Downloads"

\* An acquisition that hands the transfer the shared table.
ForceDbShared == SharedDownloads

\* Lines 463 and 519: force_db = Database(Dummy(), self.db.failed).
ForceDb == "Dummy"

\* db.downloaded(id) and db.set_downloaded(id) of streamrip on a store;
\* `recorded` says whether the shared table holds the item id.
downloaded(store, recorded) == store = SharedDownloads /\ recorded

set_downloaded(store, recorded) == IF store = SharedDownloads THEN TRUE ELSE recorded

\* What the transfer does with the store it is given: a resolve that finds
\* the item recorded as downloaded skips it and returns nothing.
Attempted(call) ==
    LET t == call.transfer
    IN  IF ~(t.outcome = "raises" /\ t.at = "login") /\ downloaded(ForceDb, call.recorded)
        THEN [t EXCEPT !.outcome = "resolve_none", !.at = "resolve", !.exc = None]
        ELSE t

\* A coordinator that verifies whatever the transfer did.
ChecksAlways(kind, t) == IF kind = "track" THEN {"output_exists"} ELSE {"audio_count"}

\* The verifications the coordinator makes: lines 480 and 537-546 are reached
\* only when rip has returned.
ChecksMade(kind, t) ==
    IF t.outcome = "returns"
    THEN (IF kind = "track" THEN {"output_exists"} ELSE {"audio_count"})
    ELSE {}

\* The rest of an acquisition call besides what it returns: the checks
\* made, whether rip was called, whether an __artwork directory is in the
\* item's folder afterwards and whether the shared downloads table holds
\* the item.  The artwork directory is made by a transfer that gets past
\* login (call.artwork), remove_artwork_tempdirs being a no-op (line 38),
\* and is removed at lines 484-490 and 549-555, which follow the
\* verifications; a failing rmtree is logged.
Effects(kind, call, result) ==
    LET t == Attempted(call)
        made == call.artwork /\ (t.at = "rip" \/ (t.at = "resolve" /\ t.outcome = "raises"))
        cleaned == t.outcome = "returns" /\ result.ok /\ ~call.rmtree_fails
    IN  [checks |-> ChecksMade(kind, t),
         ripped |-> t.at = "rip",
         artwork_left |-> made /\ ~cleaned,
         recorded |-> IF t.outcome = "returns" THEN set_downloaded(ForceDb, call.recorded)
                      ELSE call.recorded]

\* One acquisition call: what it returns and what it leaves.
Acquire(call) ==
    LET result == IF call.kind = "track" THEN download_track_async(Attempted(call))
                  ELSE download_album_async(Attempted(call))
    IN  result @@ Effects(call.kind, call, result)

(***************************************************************************)
(* The configuration an acquisition works on: self.config of the service,  *)
(* _ensure_config_loaded and the copy each call makes.  Config objects     *)
(* live in a heap, ref -> object; a reference of 0 is None.                *)
(***************************************************************************)
\* session.downloads.folder as the configuration file has it.
DefaultFolder == <<"StreamripDownloads">>

\* StreamripConfig(path) / StreamripConfig.defaults(): a new object.
NewConfig == [folder |-> DefaultFolder]

\* A copy that is the object itself.
deepcopy_alias(heap, ref) == [heap |-> heap, ref |-> ref]

\* copy.deepcopy(self.config), lines 452 and 511: a new object with the
\* same settings.
deepcopy(heap, ref) == [heap |-> Append(heap, heap[ref]), ref |-> Len(heap) + 1]

\* _ensure_config_loaded, lines 74-86, called in the event loop `loop`: the
\* configuration is loaded anew when none is loaded or when the loaded one
\* belongs to another loop.
ensure_config_loaded(conf, loop) ==
    IF conf.shared = 0 \/ conf.loop # loop
    THEN [shared |-> Len(conf.heap) + 1, loop |-> loop, heap |-> Append(conf.heap, NewConfig)]
    ELSE conf

(***************************************************************************)
(* Download limiter: patched_global_download_semaphore, which streamrip's  *)
(* track and album downloads enter with `async with` around each transfer. *)
(***************************************************************************)
\* The event loops of two concurrent downloads, and a caller without a
\* running loop.
Loops == {"loop1", "loop2"}

NoLoop == "none"

\* One semaphore for every loop.
SemKeyGlobal(loop) == "global"

\* Line 22 and 30: _loop_semaphores is keyed by the running loop.
SemKey(loop) == loop

\* patched_global_download_semaphore(c) called in context ctx: what it
\* returns ("nullcontext", or the key of the semaphore) and _loop_semaphores
\* afterwards.  A new semaphore starts with the value max_connections.
patched_global_download_semaphore(c, ctx, sems) ==
    IF ctx = NoLoop
    THEN [limiter |-> "nullcontext", sems |-> sems]
    ELSE IF SemKey(ctx) \notin DOMAIN sems
    THEN LET max_connections ==
                 IF c.concurrency
                 THEN (IF c.max_connections > 0 THEN c.max_connections ELSE 1)
                 ELSE 1
         IN  IF max_connections <= 0
             THEN [limiter |-> "nullcontext", sems |-> sems]
             ELSE [limiter |-> SemKey(ctx),
                   sems |-> [k \in DOMAIN sems \cup {SemKey(ctx)} |->
                                IF k = SemKey(ctx) THEN max_connections ELSE sems[k]]]
    ELSE [limiter |-> SemKey(ctx), sems |-> sems]

\* `async with` can be entered at once: a nullcontext always, a semaphore
\* when its value is positive.
CanProceed(ctx) ==
    LET got == patched_global_download_semaphore(lConf, ctx, lSems)
    IN  IF got.limiter = "nullcontext" THEN TRUE ELSE got.sems[got.limiter] > 0

\* A transfer in context ctx enters the limiter.
Enter(ctx, t) ==
    /\ \A h \in lHeld : <<h.ctx, h.t>> # <<ctx, t>>
    /\ CanProceed(ctx)
    /\ LET got == patched_global_download_semaphore(lConf, ctx, lSems)
       IN  /\ lSems' = IF got.limiter = "nullcontext" THEN got.sems
                       ELSE [got.sems EXCEPT ![got.limiter] = @ - 1]
           /\ lHeld' = lHeld \cup {[ctx |-> ctx, t |-> t, limiter |-> got.limiter]}
    /\ UNCHANGED <<lConf, cleanVars, searchVars, acquireVars, pipeVars, intakeVars, placeVars, moreVars>>

\* A transfer leaves the limiter: a semaphore gets its slot back.
Leave(ctx, t) ==
    /\ \E h \in lHeld :
          /\ h.ctx = ctx /\ h.t = t
          /\ lHeld' = lHeld \ {h}
          /\ lSems' = IF h.limiter = "nullcontext" THEN lSems
                      ELSE [lSems EXCEPT ![h.limiter] = @ + 1]
    /\ UNCHANGED <<lConf, cleanVars, searchVars, acquireVars, pipeVars, intakeVars, placeVars, moreVars>>

(***************************************************************************)
(* Placement: DownloadService._move_to_destination                         *)
(***************************************************************************)
TempDownloadPath == "/tmp/riparr/downloads"

MusicOutputPath == "/media/Music"

\* MUSIC_PATH_PATTERN, '{artist}/{artist} - {title}', as its tokens.
PathPattern == <<"{artist}", "/", "{artist}", " - ", "{title}">>

\* _download_content, line 195: <temp>/request_<id>.
TempPath(id) == <<TempDownloadPath, "/request_">> \o Str(id)

InvalidChars == {"<", ">", ":", "\"", "|", "?", "*"}

RECURSIVE StripLeft(_, _)
StripLeft(s, drop) ==
    IF s # <<>> /\ s[1] \in drop THEN StripLeft(Tail(s), drop) ELSE s

RECURSIVE StripRight(_, _)
StripRight(s, drop) ==
    IF s # <<>> /\ s[Len(s)] \in drop THEN StripRight(SubSeq(s, 1, Len(s) - 1), drop) ELSE s

\* _sanitize_path: the invalid characters are removed, then dots and spaces
\* are stripped from both ends.
sanitize_path(path) ==
    StripRight(StripLeft(SelectSeq(path, LAMBDA c : c \notin InvalidChars), {".", " "}),
               {".", " "})

RECURSIVE Substitute(_, _)
Substitute(pattern, row) ==
    IF pattern = <<>> THEN <<>>
    ELSE (CASE pattern[1] = "{artist}" ->
                   sanitize_path(IF row.artist # None THEN row.artist ELSE <<"Unknown Artist">>)
            [] pattern[1] = "{title}" -> sanitize_path(row.title)
            [] pattern[1] = "{album}" -> sanitize_path(row.album)
            [] OTHER -> <<pattern[1]>>)
         \o Substitute(Tail(pattern), row)

\* os.path.join(a, b) at line 356: an absolute b is the result, otherwise b
\* is put after a and a separator.
os_path_join(a, b) == IF b # <<>> /\ b[1] = "/" THEN b ELSE a \o <<"/">> \o b

\* _build_destination_path for a given pattern.
destination_path(pattern, row) == os_path_join(<<MusicOutputPath>>, Substitute(pattern, row))

build_destination_path(row) == destination_path(PathPattern, row)

\* A directory: the files under it, and whether they sit in one subfolder
\* the downloader made (nested) or directly in it.
Dir(nested, files) == [nested |-> nested, files |-> files]

FileSize(f) == IF IsAudio(f) THEN 3 ELSE 1

RECURSIVE TotalSize(_)
TotalSize(files) ==
    IF files = {} THEN 0
    ELSE LET f == CHOOSE g \in files : TRUE IN FileSize(f) + TotalSize(files \ {f})

Remove(path) == [p \in DOMAIN fs \ {path} |-> fs[p]]

Put(tree, path, dir) == [p \in DOMAIN tree \cup {path} |-> IF p = path THEN dir ELSE tree[p]]

\* A placement that records the size and leaves download_path as it was.
PlacedRowKeepsStaging(row, dest_path, total_size) == [row EXCEPT !.file_size = total_size]

\* Lines 295, 308 and 310-319: the row takes the final path and the size of
\* the files under it.
PlacedRow(row, dest_path, total_size) ==
    [row EXCEPT !.download_path = dest_path, !.file_size = total_size]

\* _move_to_destination on the row as the run reads it.  fault: a filesystem
\* call raises before anything is moved.  flush_fails: the commit at line 321
\* raises.  Returns the outcome, the directories afterwards and the row as
\* persisted by line 321.
move_to_destination(row, fault, flush_fails) ==
    IF row.download_path = NoPath \/ row.download_path \notin DOMAIN fs
    THEN [ok |-> FALSE, error |-> <<"Download path not found">>, fs |-> fs, row |-> row]
    ELSE IF fault
    THEN [ok |-> FALSE, error |-> <<"[Errno 13] Permission denied">>, fs |-> fs, row |-> row]
    ELSE
    LET src == row.download_path
        staged == fs[src]
        dest_path == build_destination_path(row)
        prestructured == staged.nested /\ row.content_type = "album"
        moved ==
            IF prestructured
            THEN \* lines 274-283: the contents of the single subfolder go into dest_path
                 IF src = dest_path THEN fs
                 ELSE Put(Put(fs, src, Dir(TRUE, {})), dest_path,
                          IF dest_path \in DOMAIN fs
                          THEN Dir(fs[dest_path].nested, fs[dest_path].files \cup staged.files)
                          ELSE Dir(FALSE, staged.files))
            ELSE \* lines 301-304: an existing destination is removed, then replaced
                 Put(Remove(src), dest_path, staged)
        gone == ~prestructured /\ src = dest_path
        placed == PlacedRow(row, dest_path, TotalSize(moved[dest_path].files))
    IN  IF gone
        THEN [ok |-> FALSE, error |-> <<"[Errno 2] No such file or directory">>,
              fs |-> Remove(src), row |-> row]
        ELSE IF flush_fails
        THEN [ok |-> FALSE, error |-> <<"commit failed">>, fs |-> moved, row |-> row]
        ELSE [ok |-> TRUE, error |-> None, fs |-> moved, row |-> placed]

(***************************************************************************)
(* Placement of a pre-structured album: _move_to_destination, lines        *)
(* 266-295, and _merge_directories, on directory trees.  A tree maps the   *)
(* names in a directory to nodes; a node is a file with its data or a      *)
(* directory with the tree under it.                                       *)
(***************************************************************************)
File(data) == [kind |-> "file", data |-> data, items |-> <<>>]

Folder(items) == [kind |-> "dir", data |-> "", items |-> items]

\* shutil.move(src, dst) at lines 283 and 293, reached when src is a file or
\* dst does not exist: a missing dst is created by renaming, an existing
\* file is replaced, and into an existing directory src is moved under its
\* own name, which raises when that name exists there.
shutil_move(node, name, dst) ==
    IF name \notin DOMAIN dst \/ dst[name].kind = "file"
    THEN [ok |-> TRUE, node |-> node]
    ELSE IF name \in DOMAIN dst[name].items
    THEN [ok |-> FALSE, node |-> dst[name]]
    ELSE [ok |-> TRUE,
          node |-> Folder([n \in DOMAIN dst[name].items \cup {name} |->
                              IF n = name THEN node ELSE dst[name].items[n]])]

\* A merge that keeps the destination's file where both sides have a file
\* of one name.
RECURSIVE merge_directories_keeps_files(_, _)
merge_directories_keeps_files(src, dst) ==
    LET one(n) ==
            IF n \notin DOMAIN src THEN dst[n]
            ELSE IF n \notin DOMAIN dst THEN src[n]
            ELSE IF src[n].kind = "dir" /\ dst[n].kind = "dir"
            THEN Folder(merge_directories_keeps_files(src[n].items, dst[n].items).items)
            ELSE dst[n]
        names == DOMAIN src \cup DOMAIN dst
    IN  [ok |-> TRUE, items |-> [n \in names |-> one(n)]]

\* _merge_directories(src, dst): every item of src is merged into (a
\* directory onto an existing entry) or moved over (anything else) the entry
\* of the same name in dst.  os.remove of a directory raises, and so does a
\* move below an entry that is a file.  Returns whether it completed and the
\* tree of dst; of a merge that raises, the tree is not modelled.
RECURSIVE merge_directories(_, _)
merge_directories(src, dst) ==
    LET one(n) ==
            IF n \notin DOMAIN src THEN [ok |-> TRUE, node |-> dst[n]]
            ELSE IF n \notin DOMAIN dst THEN [ok |-> TRUE, node |-> src[n]]
            ELSE IF src[n].kind = "dir"
            THEN IF dst[n].kind = "file"
                 THEN [ok |-> DOMAIN src[n].items = {}, node |-> dst[n]]
                 ELSE LET m == merge_directories(src[n].items, dst[n].items)
                      IN  [ok |-> m.ok, node |-> Folder(m.items)]
            ELSE [ok |-> dst[n].kind = "file", node |-> src[n]]
        names == DOMAIN src \cup DOMAIN dst
    IN  [ok |-> \A n \in names : one(n).ok, items |-> [n \in names |-> one(n).node]]

\* The loops at lines 277-283 and 287-293: a directory whose name exists in
\* dest_path is merged by _merge_directories, everything else goes through
\* shutil.move.
move_items(src, dst) ==
    LET one(n) ==
            IF n \notin DOMAIN src THEN [ok |-> TRUE, node |-> dst[n]]
            ELSE IF src[n].kind = "dir" /\ n \in DOMAIN dst
            THEN IF dst[n].kind = "file"
                 THEN [ok |-> DOMAIN src[n].items = {}, node |-> dst[n]]
                 ELSE LET m == merge_directories(src[n].items, dst[n].items)
                      IN  [ok |-> m.ok, node |-> Folder(m.items)]
            ELSE shutil_move(src[n], n, dst)
        names == DOMAIN src \cup DOMAIN dst
    IN  [ok |-> \A n \in names : one(n).ok, items |-> [n \in names |-> one(n).node]]

\* Line 272: the directories at the top level of the staged root.
TopFolders(stage) == {n \in DOMAIN stage : stage[n].kind = "dir"}

\* Lines 274-275 and 284-287: the payload is what the single top-level
\* directory holds, or the staged root itself when there are several.
PayloadOf(stage) ==
    IF Cardinality(TopFolders(stage)) = 1
    THEN stage[CHOOSE n \in TopFolders(stage) : TRUE].items
    ELSE stage

\* Lines 266-295 for an album whose staged root has a subdirectory.
place_prestructured(stage, dest) == move_items(PayloadOf(stage), dest)

\* A destination path at which nothing exists.
NoNode == [kind |-> "none", data |-> "", items |-> <<>>]

\* A placement that moves the staged root onto whatever is at the
\* destination.
place_wholesale_no_remove(root, dest) ==
    IF dest.kind = "dir"
    THEN [ok |-> TRUE, node |-> Folder([n \in DOMAIN dest.items \cup {"request_1"} |->
                                           IF n = "request_1" THEN root ELSE dest.items[n]])]
    ELSE [ok |-> TRUE, node |-> root]

\* Lines 301-306: a staged directory replaces the destination, which is
\* removed by shutil.rmtree when it exists (rmtree raises on a file); a
\* staged file is moved by shutil.move alone, which replaces a file and
\* puts the file into an existing directory under its own name.
place_wholesale(root, dest) ==
    IF root.kind = "dir"
    THEN IF dest.kind = "file"
         THEN [ok |-> FALSE, node |-> dest]
         ELSE [ok |-> TRUE, node |-> root]
    ELSE IF dest.kind = "dir"
    THEN IF "request_1" \in DOMAIN dest.items
         THEN [ok |-> FALSE, node |-> dest]
         ELSE [ok |-> TRUE, node |-> Folder([n \in DOMAIN dest.items \cup {"request_1"} |->
                                                IF n = "request_1" THEN root
                                                ELSE dest.items[n]])]
    ELSE [ok |-> TRUE, node |-> root]

\* _download_content, lines 199-210: every request that is not a song is
\* acquired with download_album, the multi-item transfer.
MultiItem(content_type) == content_type # "song"

\* Lines 259-266: the staged root is pre-structured when the request is an
\* album and the root has a directory at its top level.
PreStructured(content_type, root) ==
    content_type = "album" /\ root.kind = "dir" /\ TopFolders(root.items) # {}

\* Lines 259-308: the move of _move_to_destination.  os.makedirs(dest_path,
\* exist_ok=True) at lines 276 and 286 raises when dest_path is a file.
move_payload(content_type, root, dest) ==
    IF PreStructured(content_type, root)
    THEN IF dest.kind = "file"
         THEN [ok |-> FALSE, node |-> dest]
         ELSE LET m == place_prestructured(root.items, dest.items)
              IN  [ok |-> m.ok, node |-> Folder(m.items)]
    ELSE place_wholesale(root, dest)

(***************************************************************************)
(* Request state machine: DownloadService.process_request, run by          *)
(* run_process in a background thread.  One action is the code from the    *)
(* return of one external call (search, metadata lookup, transfer,         *)
(* filesystem move) to the start of the next.                              *)
(***************************************************************************)
Units == 1..MaxRuns

\* A unit: where its thread stands, the request id it was started for and,
\* once process_request is over, how it ended ("true", "false", "raised").
\* `handle` is the unit's scoped database session: "none" before the first
\* query, "held" from then on, "released" after db.session.remove().
\* `warned` says that _process_metadata failed in the run (line 106).
IdleRun == [pc |-> "idle", id |-> 0, ended |-> "no", handle |-> "none", warned |-> FALSE]

\* What run_process logged last: the unit, and the (success, error) that
\* process_request returned or the exception that left it.
NothingLogged == [unit |-> 0, ok |-> FALSE, error |-> None, exc |-> None]

CommitFailed == <<"commit failed">>

Terminal == {"completed", "failed"}

Active == {"searching", "downloading", "processing"}

\* Which of the n commits of a block raises (0: none), and whether the
\* commit of the except block raises as well.
Faults(n) == {<<k, h>> \in (0..n) \X BOOLEAN : k = 0 => ~h}

Observe ==
    seen' = [i \in DOMAIN rows' |->
                (IF i \in DOMAIN seen THEN seen[i] ELSE {}) \cup {rows'[i].status}]

\* How a publish can end: without a socketio nothing is sent; with one the
\* emit is made and returns or raises.
EmitOutcomes == IF socketio = NoValue THEN {"no_socketio"} ELSE {"sent", "raised"}

\* A publisher that does nothing.
emit_status_update_never(id, status, outcome) == <<>>

\* _emit_status_update, lines 51-58: one call, which returns whatever the
\* emit does (an exception of the emit is logged at line 58).
emit_status_update(id, status, outcome) ==
    <<[ev |-> "emit", id |-> id, status |-> status, outcome |-> outcome]>>

\* A status commit that succeeded, and the publish that follows it.
Transition(id, status, outcome) ==
    <<[ev |-> "commit", id |-> id, status |-> status, outcome |-> "ok"]>>
    \o emit_status_update(id, status, outcome)

\* run_process without its finally block when an exception arrives.
EscapedUnreleased(u, e) ==
    /\ runs' = [runs EXCEPT ![u] = [@ EXCEPT !.pc = "done", !.ended = "raised"]]
    /\ logged' = [unit |-> u, ok |-> FALSE, error |-> None, exc |-> e]

\* process_request returns `result`; run_process logs it, removes the
\* session (line 303) and ends.
Returned(u, result) ==
    /\ runs' = [runs EXCEPT ![u] = [@ EXCEPT !.pc = "done",
                                             !.ended = IF result.ok THEN "true" ELSE "false",
                                             !.handle = "released"]]
    /\ logged' = [unit |-> u, ok |-> result.ok, error |-> result.error, exc |-> None]

\* An exception leaves process_request; run_process logs it (line 301),
\* removes the session (line 303) and ends.
Escaped(u, e) ==
    /\ runs' = [runs EXCEPT ![u] = [@ EXCEPT !.pc = "done", !.ended = "raised",
                                             !.handle = "released"]]
    /\ logged' = [unit |-> u, ok |-> FALSE, error |-> None, exc |-> e]

\* A pipeline that ends where it should go on.
GoesNowhere(u, pc) ==
    /\ runs' = [runs EXCEPT ![u] = [@ EXCEPT !.pc = "done", !.ended = "false",
                                             !.handle = "released"]]
    /\ UNCHANGED logged

\* The unit goes on to its next external call.
Goes(u, pc) ==
    /\ runs' = [runs EXCEPT ![u] = [@ EXCEPT !.pc = pc, !.handle = "held"]]
    /\ UNCHANGED logged

\* The except block of process_request, lines 125-131, entered with the row
\* as last persisted: FAILED and the exception's text are committed and
\* published and (False, text) is returned.  handler_fails: the commit at
\* line 129 raises, and the exception leaves process_request.  `before` are
\* the commits and publishes the step has made already.
Except(u, id, persisted, e, handler_fails, before, outcome) ==
    IF handler_fails
    THEN /\ rows' = [rows EXCEPT ![id] = persisted]
         /\ events' = before
         /\ Escaped(u, CommitFailed)
    ELSE /\ rows' = [rows EXCEPT ![id] = [persisted EXCEPT !.status = "failed",
                                                           !.error_message = e]]
         /\ events' = before \o Transition(id, "failed", outcome)
         /\ Returned(u, Failure(e))

\* The `if not success:` blocks (lines 76-81, 90-95, 110-115): FAILED and the
\* step's error are committed and published and (False, error) is returned.
FailStep(u, id, persisted, error, commit_fails, handler_fails, before, outcome) ==
    IF commit_fails
    THEN Except(u, id, persisted, CommitFailed, handler_fails, before, outcome)
    ELSE /\ rows' = [rows EXCEPT ![id] = [persisted EXCEPT !.status = "failed",
                                                           !.error_message = error]]
         /\ events' = before \o Transition(id, "failed", outcome)
         /\ Returned(u, Failure(error))

\* A process_request that publishes FAILED for a request it did not find.
NotFoundPublished(u, id, outcome) ==
    /\ logged' = [unit |-> u, ok |-> FALSE, error |-> <<"Request not found">>, exc |-> None]
    /\ events' = emit_status_update(id, "failed", outcome)
    /\ UNCHANGED rows

\* process_request, lines 64-65: without a row it returns (False, "Request
\* not found") before anything is written or published; run_process logs
\* the error.
NotFound(u, id, outcome) ==
    /\ logged' = [unit |-> u, ok |-> FALSE, error |-> <<"Request not found">>, exc |-> None]
    /\ events' = <<>>
    /\ UNCHANGED rows

\* A _search_content that searches whatever the row holds.
StartSearchAlways(row) == "searching"

\* After the commit at line 71, _search_content either starts a search
\* (line 145) or goes on to the metadata lookup.
StartSearch(row) == IF NeedsSearch(row) THEN "searching" ELSE "matching"

\* app.py process_request starts run_process; process_request, lines 62-72.
StartProcess(u, id) ==
    /\ runs[u].pc = "idle"
    /\ \A v \in Units : v < u => runs[v].pc # "idle"
    /\ runs[u].id = 0
    /\ \E lookup_fails \in BOOLEAN, f \in Faults(1), o \in EmitOutcomes :
          LET started == [runs EXCEPT ![u] = [@ EXCEPT !.id = id, !.handle = "held"]]
              over(ended) == [started EXCEPT ![u] = [@ EXCEPT !.pc = "done", !.ended = ended,
                                                              !.handle = "released"]]
          IN  IF lookup_fails
              THEN \* line 63 is outside the try: the exception leaves process_request
                   /\ f = <<0, FALSE>>
                   /\ runs' = over("raised")
                   /\ logged' = [unit |-> u, ok |-> FALSE, error |-> None,
                                 exc |-> <<"lookup failed">>]
                   /\ events' = <<>>
                   /\ UNCHANGED rows
              ELSE IF id \notin DOMAIN rows
              THEN /\ f = <<0, FALSE>>
                   /\ runs' = over("false")
                   /\ NotFound(u, id, o)
              ELSE LET searching == [rows[id] EXCEPT !.status = "searching",
                                                     !.error_message = None]
                   IN  IF f[1] = 1
                       THEN /\ rows' = [rows EXCEPT ![id] =
                                          IF f[2] THEN @
                                          ELSE [@ EXCEPT !.status = "failed",
                                                         !.error_message = CommitFailed]]
                            /\ runs' = over(IF f[2] THEN "raised" ELSE "false")
                            /\ logged' = [unit |-> u, ok |-> FALSE,
                                          error |-> IF f[2] THEN None ELSE CommitFailed,
                                          exc |-> IF f[2] THEN CommitFailed ELSE None]
                            /\ events' = IF f[2] THEN <<>> ELSE Transition(id, "failed", o)
                       ELSE /\ rows' = [rows EXCEPT ![id] = searching]
                            /\ runs' = [started EXCEPT ![u] =
                                          [@ EXCEPT !.pc = StartSearch(searching)]]
                            /\ events' = Transition(id, "searching", o)
                            /\ UNCHANGED logged
    /\ Observe
    /\ UNCHANGED <<fs, picard, socketio, intakeVars, pureVars>>

\* What _search_content, lines 145-163, can come to for a row, over every
\* answer of the backends.
SearchOutcomes(row) == {SearchAndStore(row, resp) : resp \in [RespKeys(row) -> Shapes]}

\* smart_search returns; _search_content, lines 145-163, and on failure
\* process_request, lines 76-81.
SearchEnd(u) ==
    /\ runs[u].pc = "searching"
    /\ LET id == runs[u].id
       IN  \E found \in SearchOutcomes(rows[id]), f \in Faults(1), o \in EmitOutcomes :
              IF ~found.ok
              THEN FailStep(u, id, rows[id], found.error, f[1] = 1, f[2], <<>>, o)
              ELSE IF f[1] = 1
              THEN Except(u, id, rows[id], CommitFailed, f[2], <<>>, o)
              ELSE /\ rows' = [rows EXCEPT ![id] = found.row]
                   /\ events' = <<>>
                   /\ Goes(u, "matching")
    /\ Observe
    /\ UNCHANGED <<fs, picard, socketio, intakeVars, pureVars>>

\* The metadata lookup returns or raises; _search_content, lines 165-184,
\* process_request, lines 84-87, and _download_content, lines 188-196.
MbStep(u) ==
    /\ runs[u].pc = "matching"
    /\ LET id == runs[u].id
       IN  \E mb \in MbOutcomes, f \in Faults(1), o \in EmitOutcomes :
              LET matched == MbBackfill(rows[id], mb)
                  downloading == [matched EXCEPT !.status = "downloading"]
              IN  IF f[1] = 1
                  THEN Except(u, id, matched, CommitFailed, f[2], <<>>, o) /\ UNCHANGED fs
                  ELSE IF downloading.streaming_service = NoValue
                          \/ downloading.streaming_url = NoValue
                  THEN /\ FailStep(u, id, downloading, <<"No streaming source available">>,
                                   FALSE, FALSE, Transition(id, "downloading", o), o)
                       /\ UNCHANGED fs
                  ELSE /\ rows' = [rows EXCEPT ![id] = downloading]
                       /\ events' = Transition(id, "downloading", o)
                       /\ Goes(u, "downloading")
                       /\ fs' = IF TempPath(id) \in DOMAIN fs THEN fs
                                ELSE Put(fs, TempPath(id), Dir(FALSE, {}))
    /\ Observe
    /\ UNCHANGED <<picard, socketio, intakeVars, pureVars>>

NoFilesProduced ==
    <<"Download succeeded but no files were produced (likely skipped by streaming service)">>

\* The transfers the pipeline is run against: one track and a cover.
PipelineTransfers == TransfersUpTo(1)

\* What a transfer can leave in the request's temp directory, given what is
\* there: only rip writes files, and it removes none.
CanLeave(t, id) ==
    LET before == IF TempPath(id) \in DOMAIN fs THEN fs[TempPath(id)].files ELSE {}
    IN  IF t.at = "rip" THEN before \subseteq t.files ELSE t.files = before

\* download_track (for a song) or download_album (otherwise), lines 199-210,
\* over every transfer: what it returns and the files in the temp directory.
DownloadOutcomes(row, id) ==
    {[result |-> IF row.content_type = "song" THEN download_track_async(t)
                 ELSE download_album_async(t),
      files |-> t.files] : t \in {x \in PipelineTransfers : CanLeave(x, id)}}

\* download_track / download_album returns; _download_content, lines 212-228,
\* and process_request, lines 90-101.
DownloadEnd(u) ==
    /\ runs[u].pc = "downloading"
    /\ LET id == runs[u].id
           row == rows[id]
       IN  \E o \in DownloadOutcomes(row, id), nested \in BOOLEAN, f \in Faults(2),
              e \in EmitOutcomes :
              LET staged == [row EXCEPT !.download_path = TempPath(id)]
                  processing == IF picard THEN [staged EXCEPT !.status = "processing"]
                                ELSE staged
              IN  /\ o.files = {} => ~nested
                  /\ fs' = IF o.files # {} \/ TempPath(id) \in DOMAIN fs
                           THEN Put(fs, TempPath(id), Dir(nested, o.files))
                           ELSE fs
                  /\ IF ~o.result.ok
                     THEN f[1] < 2
                          /\ FailStep(u, id, row, o.result.error, f[1] = 1, f[2], <<>>, e)
                     ELSE IF o.files = {}
                     THEN f[1] < 2
                          /\ FailStep(u, id, row, NoFilesProduced, f[1] = 1, f[2], <<>>, e)
                     ELSE IF f[1] = 1
                     THEN Except(u, id, row, CommitFailed, f[2], <<>>, e)
                     ELSE IF f[1] = 2
                     THEN picard /\ Except(u, id, staged, CommitFailed, f[2], <<>>, e)
                     ELSE /\ rows' = [rows EXCEPT ![id] = processing]
                          /\ events' = IF picard THEN Transition(id, "processing", e) ELSE <<>>
                          /\ Goes(u, IF picard THEN "tagging" ELSE "placing")
    /\ Observe
    /\ UNCHANGED <<picard, socketio, intakeVars, pureVars>>

\* _process_metadata, lines 230-249: it fails only when the download path
\* is not there.
process_metadata(row) ==
    IF row.download_path = NoPath \/ row.download_path \notin DOMAIN fs
    THEN Failure(<<"Download path not found">>)
    ELSE Success

\* process_request, lines 103-106: a failure of _process_metadata is printed
\* as a warning and the run goes on to placement.
Metadata(u) ==
    /\ runs[u].pc = "tagging"
    /\ runs' = [runs EXCEPT ![u] = [@ EXCEPT !.pc = "placing",
                                             !.warned = ~process_metadata(rows[runs[u].id]).ok]]
    /\ events' = <<>>
    /\ UNCHANGED <<rows, fs, seen, picard, logged, socketio, intakeVars, pureVars>>

\* process_request, lines 108-115: _move_to_destination, whose commit at
\* line 321 persists the final path and the size under the status the row
\* has.
Place(u) ==
    /\ runs[u].pc = "placing"
    /\ LET id == runs[u].id
           row == rows[id]
       IN  \E fault, flush_fails \in BOOLEAN, f \in Faults(1), o \in EmitOutcomes :
              LET moved == move_to_destination(row, fault, flush_fails)
              IN  /\ fault => ~flush_fails
                  /\ fs' = moved.fs
                  /\ IF ~moved.ok
                     THEN FailStep(u, id, row, moved.error, f[1] = 1, f[2], <<>>, o)
                     ELSE /\ f = <<0, FALSE>>
                          /\ rows' = [rows EXCEPT ![id] = moved.row]
                          /\ events' = <<>>
                          /\ Goes(u, "completing")
    /\ Observe
    /\ UNCHANGED <<picard, socketio, intakeVars, pureVars>>

\* process_request, lines 117-123: the COMPLETED transition.
Complete(u) ==
    /\ runs[u].pc = "completing"
    /\ LET id == runs[u].id
       IN  \E f \in Faults(1), o \in EmitOutcomes :
              IF f[1] = 1
              THEN Except(u, id, rows[id], CommitFailed, f[2], <<>>, o)
              ELSE /\ rows' = [rows EXCEPT ![id] = [@ EXCEPT !.status = "completed",
                                                             !.completed_at = "utcnow"]]
                   /\ events' = Transition(id, "completed", o)
                   /\ Returned(u, Success)
    /\ Observe
    /\ UNCHANGED <<fs, picard, socketio, intakeVars, pureVars>>

(***************************************************************************)
(* Intake: create_request, with JellyfinService.check_availability and     *)
(* sync_library                                                            *)
(***************************************************************************)
\* title ILIKE '%needle%' on the characters of the model: the needle occurs
\* in the title, an underscore in the needle standing for any one character.
ILikeContains(title, needle) ==
    \E i \in 1..(Len(title) - Len(needle) + 1) :
        \A j \in 1..Len(needle) : needle[j] = "_" \/ needle[j] = title[i + j - 1]

\* check_availability: some library item matches the title and, when an
\* artist is given, the artist.
check_availability(title, artist) ==
    \E j \in DOMAIN library :
        /\ ILikeContains(library[j].title, title)
        /\ artist # None =>
              (library[j].artist # None /\ ILikeContains(library[j].artist, artist))

JellyfinIds == {"j1"}

LibraryItems == [title : {<<"a">>, <<"a", ".">>}, artist : {None}]

\* sync_library: the items Jellyfin lists are inserted, or updated when
\* their Jellyfin id is known.
SyncLibrary ==
    /\ \E j \in JellyfinIds, item \in LibraryItems :
          library' = [k \in DOMAIN library \cup {j} |-> IF k = j THEN item ELSE library[k]]
    /\ UNCHANGED <<availSeen, pipeVars, pureVars>>

\* A create_request that inserts the row without consulting the library.
create_request_unchecked(content_type, title, artist, service, url) ==
    /\ Len(rows) < MaxReqs
    /\ title # <<>>
    /\ rows' = Append(rows, NewRow(content_type, title, artist, service, url))
    /\ UNCHANGED availSeen
    /\ Observe
    /\ UNCHANGED <<library, runs, fs, picard, logged, socketio, events, pureVars>>

\* create_request: when the content is in the library the answer is
\* "already available" and no row is made; otherwise a PENDING row is inserted.
CreateRequest(content_type, title, artist, service, url) ==
    /\ title # <<>>
    /\ IF check_availability(title, artist)
       THEN /\ availSeen' = availSeen \cup {<<title, artist>>}
            /\ UNCHANGED rows
       ELSE /\ Len(rows) < MaxReqs
            /\ rows' = Append(rows, NewRow(content_type, title, artist, service, url))
            /\ UNCHANGED availSeen
    /\ Observe
    /\ UNCHANGED <<library, runs, fs, picard, logged, socketio, events, pureVars>>

(***************************************************************************)
(* SpecClean: the normalizer applied to every string up to MaxLen, and     *)
(* then to its own output.                                                 *)
(***************************************************************************)
CleanIdle == q = <<>> /\ nq = Pending /\ nnq = Pending

SearchIdle == sRow = <<>> /\ sResp = <<>> /\ sRet = <<>>

AcquireIdle == aCall = <<>> /\ aRet = <<>>

PlaceIdle == pStage = <<>> /\ pDest = <<>> /\ pOut = <<>> /\ pAgain = <<>>

LimiterIdle == lConf = <<>> /\ lSems = <<>> /\ lHeld = {}

GatherIdle == gCall = <<>> /\ gDone = {} /\ gRet = <<>>

HttpIdle == hReq = <<>> /\ hResp = <<>>

ConfIdle == cConf = <<>> /\ cCalls = <<>>

MoreIdle == GatherIdle /\ HttpIdle /\ ConfIdle

RestIdle == PlaceIdle /\ LimiterIdle /\ MoreIdle

PipeIdle ==
    /\ rows = <<>> /\ runs = <<>> /\ fs = <<>> /\ seen = <<>> /\ picard = TRUE
    /\ logged = <<>> /\ socketio = NoValue /\ events = <<>>
    /\ library = <<>> /\ availSeen = {}

InitClean ==
    /\ q \in StringsUpTo(MaxLen)
    /\ nq = Pending
    /\ nnq = Pending
    /\ SearchIdle
    /\ AcquireIdle
    /\ PipeIdle
    /\ RestIdle

Normalize ==
    /\ nq = Pending
    /\ nq' = clean_search_query(q)
    /\ UNCHANGED <<q, nnq, searchVars, acquireVars, pipeVars, intakeVars, restVars>>

NormalizeAgain ==
    /\ nq # Pending
    /\ nnq = Pending
    /\ nnq' = clean_search_query(nq)
    /\ UNCHANGED <<q, nq, searchVars, acquireVars, pipeVars, intakeVars, restVars>>

NextClean == Normalize \/ NormalizeAgain

SpecClean == InitClean /\ [][NextClean]_vars

\* C9: normalizing an already normalized string gives the same string:
\* clean_search_query(clean_search_query(q)) = clean_search_query(q) for every q.
C9_NormalizeIdempotent == nnq # Pending => nnq = nq

\* C9 witness: a string that normalization changes (a removed character and
\* a collapsed run of whitespace) has been normalized twice.
C9_Witness ==
    /\ nnq # Pending
    /\ nq # q
    /\ \E i \in DOMAIN q : ~Kept(q[i])
    /\ \E i \in DOMAIN q : q[i] \in SpaceChars
    /\ nq # <<>>

\* C26: the normalized query holds only letters, digits, single spaces and
\* hyphens (no underscore, no punctuation, no tab), and neither begins nor
\* ends with a space.
C26_OnlyAlnumSpaceHyphen ==
    nq # Pending =>
        /\ \A i \in DOMAIN nq : nq[i] \in {"a", "7", " ", "-"}
        /\ \A i \in DOMAIN nq : (nq[i] = " " /\ i < Len(nq)) => nq[i + 1] # " "
        /\ nq # <<>> => (nq[1] # " " /\ nq[Len(nq)] # " ")

(***************************************************************************)
(* SpecSearch: _search_content applied once to a pending row, for every    *)
(* combination of answers of the two backends to the raw and to the        *)
(* normalized query.                                                       *)
(***************************************************************************)
Titles == {<<"a">>, <<"a", "!">>}

Artists == {None, <<"b", ".">>}

\* What intake can be given as the acquisition identity: nothing, a service
\* without an item id, an item id without a service, or both.
IntakeIdentities == {<<NoValue, NoValue>>, <<"tidal", NoValue>>,
                     <<NoValue, "id9">>, <<"tidal", "id9">>}

SearchRows == {NewRow(ct, t, a, i[1], i[2]) :
                 ct \in {"song", "album"}, t \in Titles, a \in Artists, i \in IntakeIdentities}

InitSearch ==
    /\ sRow \in SearchRows
    /\ sResp \in [RespKeys(sRow) -> Shapes]
    /\ sRet = <<>>
    /\ CleanIdle
    /\ AcquireIdle
    /\ PipeIdle
    /\ RestIdle

SearchContent ==
    /\ sRet = <<>>
    /\ \E mb \in MbOutcomes :
          sRet' = search_content(sRow, sResp, mb)
                  @@ [attempts |-> IF NeedsSearch(sRow)
                                   THEN smart_search_attempts(SearchQuery(sRow), SearchKind(sRow),
                                                              TRUE, sResp)
                                   ELSE <<>>,
                      mb |-> mb]
    /\ UNCHANGED <<sRow, sResp, cleanVars, acquireVars, pipeVars, intakeVars, restVars>>

NextSearch == SearchContent

SpecSearch == InitSearch /\ [][NextSearch]_vars

\* The answers the resolver can get for the row's query, in the order of the attempts.
PrimaryRaw == Search(SearchKind(sRow), SearchQuery(sRow), PrimaryService, sResp)

PrimaryCleaned ==
    Search(SearchKind(sRow), clean_search_query(SearchQuery(sRow)), PrimaryService, sResp)

FallbackRaw == Search(SearchKind(sRow), SearchQuery(sRow), FallbackService, sResp)

FallbackCleaned ==
    Search(SearchKind(sRow), clean_search_query(SearchQuery(sRow)), FallbackService, sResp)

PrimaryHasNothing == Len(PrimaryRaw.results) = 0 /\ Len(PrimaryCleaned.results) = 0

FallbackHasNothing == Len(FallbackRaw.results) = 0 /\ Len(FallbackCleaned.results) = 0

FallbackItems ==
    IF Len(FallbackRaw.results) > 0 THEN FallbackRaw.results ELSE FallbackCleaned.results

\* C7: when the primary backend has no item for the raw and the normalized
\* query and the fallback backend has one, smart_search returns the
\* fallback's items with the fallback as the winning backend, and
\* _search_content stores that backend and the first item's id on the row.
C7_FallbackWins ==
    (sRet # <<>> /\ NeedsSearch(sRow) /\ PrimaryHasNothing /\ ~FallbackHasNothing) =>
        /\ sRet.ret = SmartReturn(FallbackItems, FallbackService, None)
        /\ sRet.ok
        /\ sRet.row.streaming_service = FallbackService
        /\ sRet.row.streaming_url = FallbackItems[1].id

\* C7 witness: the primary answered nothing, the fallback answered two items
\* to the normalized query only, and the second-listed id was not taken.
C7_Witness ==
    /\ sRet # <<>> /\ NeedsSearch(sRow) /\ PrimaryHasNothing
    /\ Len(FallbackRaw.results) = 0 /\ Len(FallbackCleaned.results) = 2
    /\ sRet.row.streaming_service = FallbackService
    /\ sRet.row.streaming_url = "id2"

\* The backends a message names.
NamedIn(msg) == {s \in {PrimaryService, FallbackService} : s \in Range(msg)}

\* C8 as claimed: when every attempt on every backend is empty, the error
\* message names both the primary and the fallback backend.
C8_NamesEveryBackend ==
    (sRet # <<>> /\ NeedsSearch(sRow) /\ PrimaryHasNothing /\ FallbackHasNothing) =>
        NamedIn(sRet.ret.error) = {PrimaryService, FallbackService}

\* C8 as the code has it: when every attempt is empty, smart_search returns
\* no items, no backend, and as message the error of the last attempt made
\* (the fallback's, on the normalized query) or, when that attempt did not
\* fail, the fixed text "No results found on any streaming service";
\* _search_content fails with the same message and leaves the row as it was.
C8_LastErrorOrFixedText ==
    (sRet # <<>> /\ NeedsSearch(sRow) /\ PrimaryHasNothing /\ FallbackHasNothing) =>
        /\ sRet.ret = SmartReturn(<<>>, NoValue,
                                  OrElse(FallbackCleaned.error, NoResultsAnyService))
        /\ ~sRet.ok
        /\ sRet.error = sRet.ret.error
        /\ sRet.row = sRow

\* C8 witness: every attempt was empty, the primary's attempts failed and
\* the fallback's did not, and the message is the fixed text.
C8_Witness ==
    /\ sRet # <<>> /\ NeedsSearch(sRow) /\ PrimaryHasNothing /\ FallbackHasNothing
    /\ PrimaryRaw.error # None
    /\ sRet.error = NoResultsAnyService

\* Whether the i-th search call made for the row came back with items.
HitAt(i) == Hit(SearchKind(sRow), sRet.attempts[i], sResp)

\* The search calls in the order primary/raw, primary/normalized,
\* fallback/raw, fallback/normalized, the normalized ones left out when the
\* normalized query is the raw query.
FixedOrder ==
    LET query == SearchQuery(sRow)
        cleaned_query == clean_search_query(query)
    IN  IF cleaned_query = query
        THEN <<Attempt(PrimaryService, query, "raw"), Attempt(FallbackService, query, "raw")>>
        ELSE <<Attempt(PrimaryService, query, "raw"),
               Attempt(PrimaryService, cleaned_query, "normalized"),
               Attempt(FallbackService, query, "raw"),
               Attempt(FallbackService, cleaned_query, "normalized")>>

\* C25 as claimed: every raw search call that comes back empty is followed
\* at once by the normalized retry on the same backend, and no call is made
\* after the first one that comes back with items.
C25_AlwaysRetried ==
    (sRet # <<>> /\ NeedsSearch(sRow)) =>
        \A i \in 1..Len(sRet.attempts) :
            /\ HitAt(i) => i = Len(sRet.attempts)
            /\ (sRet.attempts[i].form = "raw" /\ ~HitAt(i)) =>
                  /\ i < Len(sRet.attempts)
                  /\ sRet.attempts[i + 1].service = sRet.attempts[i].service
                  /\ sRet.attempts[i + 1].form = "normalized"

\* C25 as the code has it: the search calls made are the beginning of the
\* fixed order primary/raw, primary/normalized, fallback/raw,
\* fallback/normalized, in which the normalized retries are made only when
\* the normalized query differs from the raw one; the calls end with the
\* first one that comes back with items, and with the end of the order
\* when none does.
C25_FixedOrderUntilHit ==
    (sRet # <<>> /\ NeedsSearch(sRow)) =>
        /\ Len(sRet.attempts) \in 1..Len(FixedOrder)
        /\ sRet.attempts = SubSeq(FixedOrder, 1, Len(sRet.attempts))
        /\ \A i \in 1..Len(sRet.attempts) : HitAt(i) => i = Len(sRet.attempts)
        /\ ~HitAt(Len(sRet.attempts)) => Len(sRet.attempts) = Len(FixedOrder)

\* The primary came back empty for the raw and for the normalized query and
\* the fallback had items for the raw one: three calls were made.
C25_Witness ==
    /\ sRet # <<>> /\ NeedsSearch(sRow)
    /\ Len(sRet.attempts) = 3
    /\ sRet.attempts[2] = Attempt(PrimaryService, clean_search_query(SearchQuery(sRow)),
                                  "normalized")
    /\ sRet.attempts[3].service = FallbackService
    /\ HitAt(3)

\* The answers with every failure of the primary backend turned into an
\* empty result.
PrimaryErrorsAsEmpty ==
    [k \in DOMAIN sResp |->
        IF k[2] = PrimaryService /\ sResp[k] = "error" THEN "empty" ELSE sResp[k]]

\* The primary backend failed on a search call that was made.
PrimaryFailed ==
    \E i \in 1..Len(sRet.attempts) :
        /\ sRet.attempts[i].service = PrimaryService
        /\ Search(SearchKind(sRow), sRet.attempts[i].query, PrimaryService, sResp).error # None

\* C38: a search call on the primary backend that fails is treated as one
\* that found nothing: the calls made, the items and the winning backend
\* are those of a run in which the primary answered with an empty result;
\* when the primary has no item the fallback is queried, and when the
\* fallback has items the resolver returns them with the fallback as the
\* winner and no error, and the search step succeeds.
C38_PrimaryErrorLikeEmpty ==
    (sRet # <<>> /\ NeedsSearch(sRow) /\ PrimaryFailed) =>
        LET quiet == smart_search(SearchQuery(sRow), SearchKind(sRow), TRUE,
                                  PrimaryErrorsAsEmpty)
        IN  /\ sRet.attempts = smart_search_attempts(SearchQuery(sRow), SearchKind(sRow), TRUE,
                                                     PrimaryErrorsAsEmpty)
            /\ sRet.ret.results = quiet.results
            /\ sRet.ret.service = quiet.service
            /\ PrimaryHasNothing =>
                  /\ \E i \in 1..Len(sRet.attempts) :
                        sRet.attempts[i] = Attempt(FallbackService, SearchQuery(sRow), "raw")
                  /\ ~FallbackHasNothing =>
                        /\ sRet.ret = SmartReturn(FallbackItems, FallbackService, None)
                        /\ sRet.ok /\ sRet.error = None

\* The primary failed on the raw and on the normalized query and the
\* fallback's item was taken.
C38_Witness ==
    /\ sRet # <<>> /\ NeedsSearch(sRow)
    /\ PrimaryRaw.error # None /\ PrimaryCleaned.error # None
    /\ Len(sRet.attempts) >= 3
    /\ sRet.ok
    /\ sRet.ret.service = FallbackService
    /\ sRet.ret.error = None
    /\ sRet.row.streaming_service = FallbackService

\* The step got as far as the metadata lookup: the row had its acquisition
\* identity or the search found an item, and no canonical id was set.
LookupConsulted ==
    /\ sRet # <<>>
    /\ IF NeedsSearch(sRow) THEN Len(sRet.ret.results) > 0 ELSE TRUE
    /\ sRow.musicbrainz_id = NoValue /\ sRow.musicbrainz_release_group_id = NoValue

\* C32: when the metadata lookup fails or raises during the backfill, the
\* search step returns success, and its result and the row it leaves are
\* those of a lookup that returned no candidate.
C32_LookupFailureIgnored ==
    (LookupConsulted /\ sRet.mb \in {"error", "raise"}) =>
        LET quiet == search_content(sRow, sResp, "none")
        IN  /\ sRet.ok /\ sRet.error = None
            /\ sRet.row = quiet.row
            /\ sRet.ok = quiet.ok /\ sRet.error = quiet.error

\* The lookup raised after a search that stored the fallback's item.
C32_Witness ==
    /\ LookupConsulted /\ sRet.mb = "raise"
    /\ NeedsSearch(sRow)
    /\ sRet.ok
    /\ sRet.row.streaming_service = FallbackService
    /\ sRet.row.musicbrainz_id = NoValue

(***************************************************************************)
(* SpecGather: one streaming search over a list of backends; the search    *)
(* tasks finish in any order.                                              *)
(***************************************************************************)
Backends == {"qobuz", "deezer", "tidal"}

ServiceLists == UNION {[1..n -> Backends] : n \in 0..MaxServices}

InitGather ==
    /\ \E services \in ServiceLists :
          gCall \in {[services |-> services, shapes |-> sh] :
                       sh \in [1..Len(services) -> TaskShapes]}
    /\ gDone = {}
    /\ gRet = <<>>
    /\ CleanIdle /\ SearchIdle /\ AcquireIdle /\ PipeIdle /\ PlaceIdle /\ LimiterIdle
    /\ HttpIdle /\ ConfIdle

\* One of the gathered search tasks finishes.
TaskDone ==
    /\ gRet = <<>>
    /\ \E i \in DOMAIN gCall.services \ gDone : gDone' = gDone \cup {i}
    /\ UNCHANGED <<gCall, gRet, cleanVars, searchVars, acquireVars, pipeVars, intakeVars,
                   placeVars, limiterVars, httpVars, confVars>>

\* asyncio.gather, line 325, returns once every task has finished; the rest
\* of parallel_search and of search_streaming follows.
Gathered ==
    /\ gRet = <<>>
    /\ gDone = DOMAIN gCall.services
    /\ gRet' = search_streaming(gCall.services, gCall.shapes)
    /\ UNCHANGED <<gCall, gDone, cleanVars, searchVars, acquireVars, pipeVars, intakeVars,
                   placeVars, limiterVars, httpVars, confVars>>

NextGather == TaskDone \/ Gathered

SpecGather == InitGather /\ [][NextGather]_vars

\* The backends of the list whose search failed, by position.
FailedAt == {i \in DOMAIN gCall.services : gCall.shapes[i] \in {"error", "raised"}}

\* The items of the backends from position i on that did not fail.
RECURSIVE ItemsFrom(_)
ItemsFrom(i) ==
    IF i > Len(gCall.services) THEN <<>>
    ELSE (IF i \in FailedAt THEN <<>>
          ELSE SearchReturn(gCall.shapes[i], gCall.services[i]).results) \o ItemsFrom(i + 1)

\* The backends an error message names, in order: the part before each ": ".
RECURSIVE NamedBefore(_, _)
NamedBefore(msg, i) ==
    IF i >= Len(msg) THEN <<>>
    ELSE (IF msg[i + 1] = ": " THEN <<msg[i]>> ELSE <<>>) \o NamedBefore(msg, i + 1)

\* C21: a streaming search has an answer only when every search task has
\* finished; its items are those of the backends that did not fail, in the
\* order of the backend list; its error names exactly the backends that
\* failed, in that order, and is absent when none failed; and with at least
\* one item the answer is not a failure.
C21_GatherAll ==
    gRet # <<>> =>
        /\ gDone = DOMAIN gCall.services
        /\ gRet.results = ItemsFrom(1)
        /\ (gRet.error = None) <=> (FailedAt = {})
        /\ NamedBefore(gRet.error, 1)
             = [k \in 1..Cardinality(FailedAt) |->
                  gCall.services[CHOOSE i \in FailedAt :
                                    Cardinality({j \in FailedAt : j <= i}) = k]]
        /\ gRet.results # <<>> => gRet.http = 200

\* Of two backends the first failed and the second produced items: the
\* search answers 200 with the second's items and an error naming the first.
C21_Witness ==
    /\ gRet # <<>>
    /\ Len(gCall.services) = 2
    /\ FailedAt = {1}
    /\ gRet.results # <<>>
    /\ gRet.error # None
    /\ gRet.http = 200

(***************************************************************************)
(* SpecList: one GET of /api/requests, for every session and every set of  *)
(* stored requests.                                                        *)
(***************************************************************************)
\* The users table; "admin" has the admin role.
Users == {"u1", "u2", "admin"}

\* What the session cookie of a request can carry: nothing, the id of a
\* user, or the id of a user that is no longer in the table.
Sessions == {NoValue, "ghost"} \cup Users

\* login_manager.login_view, line 51.
LoginView == "login"

\* load_user, lines 59-61: the user of the session, or nothing.
load_user(session) == IF session \in Users THEN session ELSE NoValue

\* A login_required that lets every request through.
login_required_off(session) == TRUE

\* login_required, line 203: the view runs only for a session whose user
\* loads.
login_required(session) == load_user(session) # NoValue

\* MusicRequest.query ... order_by(id.desc()): the ids of the rows wanted,
\* highest first.
RECURSIVE Descending(_, _)
Descending(owners, i) ==
    IF i = 0 THEN <<>> ELSE <<[id |-> i, user_id |-> owners[i]]>> \o Descending(owners, i - 1)

\* get_requests, lines 202-211, behind login_required: without a user
\* flask-login answers with a redirect to the login view, or with 401 when
\* there is no login view.
get_requests(req) ==
    IF ~login_required(req.session)
    THEN [status |-> IF LoginView = NoValue THEN 401 ELSE 302, requests |-> NoValue]
    ELSE LET all == Descending(req.owners, Len(req.owners))
         IN  [status |-> 200,
              requests |-> IF req.session = "admin" THEN all
                           ELSE SelectSeq(all, LAMBDA r : r.user_id = req.session)]

InitList ==
    /\ hReq \in [session : Sessions,
                 owners : UNION {[1..n -> Users] : n \in 0..MaxListed}]
    /\ hResp = <<>>
    /\ CleanIdle /\ SearchIdle /\ AcquireIdle /\ PipeIdle /\ PlaceIdle /\ LimiterIdle
    /\ GatherIdle /\ ConfIdle

GetRequests ==
    /\ hResp = <<>>
    /\ hResp' = get_requests(hReq)
    /\ UNCHANGED <<hReq, cleanVars, searchVars, acquireVars, pipeVars, intakeVars,
                   placeVars, limiterVars, gatherVars, confVars>>

NextList == GetRequests

SpecList == InitList /\ [][NextList]_vars

\* C23: a GET of /api/requests whose session carries no user of the table is
\* answered with 401 or 302 and with no list of requests.
C23_NoListWithoutLogin ==
    (hResp # <<>> /\ hReq.session \notin Users) =>
        /\ hResp.status \in {401, 302}
        /\ hResp.requests = NoValue

\* A request without a session has been answered while requests are stored.
C23_Witness ==
    /\ hResp # <<>>
    /\ hReq.session = NoValue
    /\ Len(hReq.owners) > 0
    /\ hResp.status = 302

(***************************************************************************)
(* SpecAcquire: one acquisition call, for every behaviour of the transfer. *)
(***************************************************************************)
InitAcquire ==
    /\ aCall \in [kind : {"track", "album"}, transfer : TransfersUpTo(MaxTracks),
                   artwork : BOOLEAN, rmtree_fails : BOOLEAN, recorded : BOOLEAN]
    /\ aRet = <<>>
    /\ CleanIdle
    /\ SearchIdle
    /\ PipeIdle
    /\ RestIdle

DownloadTrack ==
    /\ aRet = <<>>
    /\ aCall.kind = "track"
    /\ aRet' = Acquire(aCall)
    /\ UNCHANGED <<aCall, cleanVars, searchVars, pipeVars, intakeVars, restVars>>

DownloadAlbum ==
    /\ aRet = <<>>
    /\ aCall.kind = "album"
    /\ aRet' = Acquire(aCall)
    /\ UNCHANGED <<aCall, cleanVars, searchVars, pipeVars, intakeVars, restVars>>

NextAcquire == DownloadTrack \/ DownloadAlbum

SpecAcquire == InitAcquire /\ [][NextAcquire]_vars

\* The digits of n occur in the message, next to each other.
Cites(msg, n) ==
    \E i \in 1..Len(msg) :
        i + Len(Str(n)) - 1 <= Len(msg) /\ SubSeq(msg, i, i + Len(Str(n)) - 1) = Str(n)

AlbumCallDone == aRet # <<>> /\ aCall.kind = "album"

ActualCount == CountAudio(aCall.transfer.files)

ExpectedCount == aCall.transfer.expected

\* C10 as claimed: a multi-item acquisition succeeds only if the count of
\* audio files equals the expected count exactly, and with a lower count it
\* fails with a message that contains both counts.
C10_ExactCount ==
    AlbumCallDone =>
        /\ aRet.ok => ActualCount = ExpectedCount
        /\ ActualCount < ExpectedCount =>
              ~aRet.ok /\ Cites(aRet.error, ActualCount) /\ Cites(aRet.error, ExpectedCount)

\* C10 as the code has it: a multi-item acquisition whose transfer returns
\* succeeds only if at least one audio file and at least the expected number
\* of audio files are in the album folder (more are accepted); with a count
\* that is lower than expected and not zero it fails with a message that
\* contains both counts, with a count of zero it fails with the fixed text
\* "Album download failed (no files produced)"; a transfer that raises
\* "already downloaded" succeeds without any count.
C10_AtLeastExpected ==
    /\ (AlbumCallDone /\ aCall.transfer.outcome = "returns") =>
          /\ aRet.ok <=> (ActualCount > 0 /\ ActualCount >= ExpectedCount)
          /\ (0 < ActualCount /\ ActualCount < ExpectedCount) =>
                /\ Cites(aRet.error, ActualCount) /\ Cites(aRet.error, ExpectedCount)
                /\ aRet.error = IncompleteDownload(ActualCount, ExpectedCount)
          /\ ActualCount = 0 => aRet.error = <<"Album download failed (no files produced)">>
    /\ (AlbumCallDone /\ aCall.transfer.outcome = "raises") =>
          aRet.ok <=> SaysAlreadyDownloaded(aCall.transfer.exc)

\* C10 witness: the transfer returned with fewer audio files than expected,
\* next to a file that is not counted, and the call failed.
C10_Witness ==
    /\ AlbumCallDone /\ aCall.transfer.outcome = "returns"
    /\ 0 < ActualCount /\ ActualCount < ExpectedCount
    /\ CoverFile \in aCall.transfer.files
    /\ ~aRet.ok

\* C22: once an acquisition call has returned, with success or with
\* failure, no __artwork directory is in the item's folder.
C22_NoArtworkLeft == aRet # <<>> => ~aRet.artwork_left

\* The transfer raised and its exception says the item is already downloaded.
TrustedSignal ==
    aCall.transfer.outcome = "raises" /\ SaysAlreadyDownloaded(aCall.transfer.exc)

\* C27: when the transfer raises an 'already downloaded' condition, the
\* call succeeds and neither the existence check of the output file nor the
\* audio-file count is made.
C27_TrustedWithoutChecks ==
    (aRet # <<>> /\ TrustedSignal) => (aRet.ok /\ aRet.error = None /\ aRet.checks = {})

\* An album call whose rip raised 'already downloaded' with no audio file in
\* the folder has succeeded.
C27_Witness ==
    /\ aRet # <<>> /\ TrustedSignal
    /\ aCall.kind = "album" /\ aCall.transfer.at = "rip"
    /\ CountAudio(aCall.transfer.files) = 0
    /\ aRet.ok

\* C28: an acquisition calls rip whenever login and resolve let it, whether
\* or not the shared downloads table holds the item; what it returns and
\* does is the same for a recorded and for an unrecorded item, and the table
\* holds the item afterwards exactly if it did before.
C28_StoreIgnored ==
    aRet # <<>> =>
        LET other == Acquire([aCall EXCEPT !.recorded = ~@])
        IN  /\ aRet.ripped <=> aCall.transfer.at = "rip"
            /\ aRet.ok = other.ok /\ aRet.error = other.error
            /\ aRet.checks = other.checks /\ aRet.ripped = other.ripped
            /\ aRet.recorded = aCall.recorded

\* An item recorded as downloaded has been transferred again with success,
\* and an unrecorded one has been transferred and is still unrecorded.
C28_Witness ==
    /\ aRet # <<>> /\ aRet.ok /\ aRet.ripped
    /\ aCall.transfer.outcome = "returns"
    /\ aCall.recorded /\ aRet.recorded

(***************************************************************************)
(* SpecConfig: MaxCalls acquisition calls on one service, each in its own  *)
(* event loop and with its own staging directory, interleaved line by line.*)
(***************************************************************************)
Calls == 1..MaxCalls

InitConfig ==
    /\ cConf = [shared |-> 0, loop |-> 0, heap |-> <<>>]
    /\ cCalls = [c \in Calls |-> [pc |-> "start", local |-> 0, wrote |-> NoPath]]
    /\ CleanIdle /\ SearchIdle /\ AcquireIdle /\ PipeIdle /\ PlaceIdle /\ LimiterIdle
    /\ GatherIdle /\ HttpIdle

ConfigFrame ==
    UNCHANGED <<cleanVars, searchVars, acquireVars, pipeVars, intakeVars,
                placeVars, limiterVars, gatherVars, httpVars>>

\* Lines 450 and 509.
EnsureLoaded(c) ==
    /\ cCalls[c].pc = "start"
    /\ cConf' = ensure_config_loaded(cConf, c)
    /\ cCalls' = [cCalls EXCEPT ![c].pc = "copy"]
    /\ ConfigFrame

\* Lines 452 and 511.
CopyConfig(c) ==
    /\ cCalls[c].pc = "copy"
    /\ LET copied == deepcopy(cConf.heap, cConf.shared)
       IN  /\ cConf' = [cConf EXCEPT !.heap = copied.heap]
           /\ cCalls' = [cCalls EXCEPT ![c] = [@ EXCEPT !.pc = "client", !.local = copied.ref]]
    /\ ConfigFrame

\* Lines 454 and 513: _get_client(service, local_config), which calls
\* _ensure_config_loaded again (line 144) and builds the client on the
\* local configuration.
GetClient(c) ==
    /\ cCalls[c].pc = "client"
    /\ cConf' = ensure_config_loaded(cConf, c)
    /\ cCalls' = [cCalls EXCEPT ![c].pc = "folder"]
    /\ ConfigFrame

\* Lines 459 and 515: local_config.session.downloads.folder = abs_output_path.
SetFolder(c) ==
    /\ cCalls[c].pc = "folder"
    /\ cConf' = [cConf EXCEPT !.heap[cCalls[c].local].folder = TempPath(c)]
    /\ cCalls' = [cCalls EXCEPT ![c].pc = "rip"]
    /\ ConfigFrame

\* Lines 477 and 534: rip writes into the folder its configuration names.
Rip(c) ==
    /\ cCalls[c].pc = "rip"
    /\ cCalls' = [cCalls EXCEPT ![c] = [@ EXCEPT !.pc = "returned",
                                                 !.wrote = cConf.heap[cCalls[c].local].folder]]
    /\ UNCHANGED cConf
    /\ ConfigFrame

Ensured == \E c \in Calls : EnsureLoaded(c)

Copied == \E c \in Calls : CopyConfig(c)

ClientMade == \E c \in Calls : GetClient(c)

FolderSet == \E c \in Calls : SetFolder(c)

Ripped == \E c \in Calls : Rip(c)

NextConfig == Ensured \/ Copied \/ ClientMade \/ FolderSet \/ Ripped

SpecConfig == InitConfig /\ [][NextConfig]_vars

\* C29: the folder setting of the service's own configuration is never
\* changed by a call, each call's configuration is an object no other call
\* and not the service refers to, and each transfer writes into the staging
\* directory of its own call, however the calls interleave.
C29_OwnCopyOwnFolder ==
    /\ cConf.shared # 0 => cConf.heap[cConf.shared].folder = DefaultFolder
    /\ \A c \in Calls :
          /\ cCalls[c].local # 0 =>
                /\ cCalls[c].local # cConf.shared
                /\ \A d \in Calls \ {c} : cCalls[d].local # cCalls[c].local
          /\ cCalls[c].wrote # NoPath => cCalls[c].wrote = TempPath(c)

\* Two calls have set their folders one after the other, before either
\* transfer ran, and both transfers have written to their own directories.
C29_Witness ==
    /\ \A c \in Calls : cCalls[c].pc = "returned" /\ cCalls[c].wrote = TempPath(c)
    /\ cConf.heap[cConf.shared].folder = DefaultFolder
    /\ Len(cConf.heap) > 2 * MaxCalls

(***************************************************************************)
(* SpecPlace: a pre-structured album placed into a destination directory,  *)
(* and the same staged root placed once more into the result.              *)
(***************************************************************************)
TreesOver(names, nodes) == UNION {[S -> nodes] : S \in SUBSET names}

\* What a directory of depth two can hold under one name: a file or an
\* empty directory.
InnerNodes(data) == {File(data), Folder(<<>>)}

\* Albums as the downloader writes them and destinations as earlier
\* placements left them: files and directories under two names, the
\* directories holding a file or an empty directory under one name.
TreesWith(data) ==
    TreesOver({"Album", "a.flac"},
              {File(data)} \cup {Folder(t) : t \in TreesOver({"a.flac"}, InnerNodes(data))})

\* Staged roots with at least one directory at the top level: files and
\* album directories under two names.
StagedRoots ==
    {t \in TreesOver({"Album", "a.flac"},
                     {File("new")} \cup {Folder(a) : a \in TreesWith("new")}) :
        TopFolders(t) # {}}

InitPlace ==
    /\ pStage \in StagedRoots
    /\ pDest \in TreesWith("old")
    /\ pOut = <<>>
    /\ pAgain = <<>>
    /\ CleanIdle /\ SearchIdle /\ AcquireIdle /\ PipeIdle /\ LimiterIdle /\ MoreIdle

PlaceFirst ==
    /\ pOut = <<>>
    /\ pOut' = place_prestructured(pStage, pDest)
    /\ UNCHANGED <<pStage, pDest, pAgain, cleanVars, searchVars, acquireVars, pipeVars, intakeVars, limiterVars, moreVars>>

\* The request is downloaded to the same staged root and placed again.
PlaceAgain ==
    /\ pOut # <<>>
    /\ pOut.ok
    /\ pAgain = <<>>
    /\ pAgain' = place_prestructured(pStage, pOut.items)
    /\ UNCHANGED <<pStage, pDest, pOut, cleanVars, searchVars, acquireVars, pipeVars, intakeVars, limiterVars, moreVars>>

NextPlace == PlaceFirst \/ PlaceAgain

SpecPlace == InitPlace /\ [][NextPlace]_vars

\* C11 as claimed: a merge that is run again with the same payload on the
\* destination the first merge left completes without error and leaves the
\* same destination tree.
C11_MergeIdempotent == pAgain # <<>> => (pAgain.ok /\ pAgain.items = pOut.items)

\* The single directory at the top level of the staged root.
OnlyFolder == CHOOSE n \in TopFolders(pStage) : TRUE

\* C12 as claimed: when the staged root of an album has exactly one
\* top-level directory and placement succeeds, every item of that directory
\* is directly under the destination, a file as the file it was and a
\* directory as a directory, and placement creates no entry named after
\* the staged directory.
C12_ContentsDirectlyUnder ==
    (pOut # <<>> /\ pOut.ok /\ Cardinality(TopFolders(pStage)) = 1) =>
        LET payload == pStage[OnlyFolder].items
        IN  /\ \A n \in DOMAIN payload :
                  /\ n \in DOMAIN pOut.items
                  /\ pOut.items[n].kind = payload[n].kind
                  /\ payload[n].kind = "file" => pOut.items[n] = payload[n]
            /\ OnlyFolder \in DOMAIN pOut.items =>
                  (OnlyFolder \in DOMAIN pDest \/ OnlyFolder \in DOMAIN payload)

\* What C31 says of a merge of payload into before that gave after: the
\* names are those of both sides, an entry of the destination alone is as it
\* was, an entry of the payload alone is the payload's, a file on both sides
\* is the payload's file, and a directory on both sides is the merge of the
\* two directories.
RECURSIVE Merged(_, _, _)
Merged(payload, before, after) ==
    /\ DOMAIN after = DOMAIN payload \cup DOMAIN before
    /\ \A n \in DOMAIN before \ DOMAIN payload : after[n] = before[n]
    /\ \A n \in DOMAIN payload \ DOMAIN before : after[n] = payload[n]
    /\ \A n \in DOMAIN payload \cap DOMAIN before :
          /\ (payload[n].kind = "file" /\ before[n].kind = "file") => after[n] = payload[n]
          /\ (payload[n].kind = "dir" /\ before[n].kind = "dir") =>
                /\ after[n].kind = "dir"
                /\ Merged(payload[n].items, before[n].items, after[n].items)

\* C31: a placement of a pre-structured album that completes has merged the
\* payload into the destination: directories on both sides are merged
\* recursively, entries of the payload alone are moved over, a destination
\* file is replaced by the payload's file of that name, and destination
\* entries without a counterpart in the payload are unchanged.
C31_MergedIntoDestination ==
    (pOut # <<>> /\ pOut.ok) => Merged(PayloadOf(pStage), pDest, pOut.items)

\* A completed merge that went two levels down: the payload and the
\* destination both have the directory Album with a file a.flac, and the
\* destination has a top-level entry the payload lacks.
C31_Witness ==
    /\ pOut # <<>> /\ pOut.ok
    /\ LET payload == PayloadOf(pStage)
       IN  /\ "Album" \in DOMAIN payload \cap DOMAIN pDest
           /\ payload["Album"].kind = "dir" /\ pDest["Album"].kind = "dir"
           /\ "a.flac" \in DOMAIN payload["Album"].items \cap DOMAIN pDest["Album"].items
           /\ payload["Album"].items["a.flac"].kind = "file"
           /\ pDest["Album"].items["a.flac"].kind = "file"
           /\ pOut.items["Album"].items["a.flac"] = File("new")
           /\ "a.flac" \in DOMAIN pDest \ DOMAIN payload

(***************************************************************************)
(* SpecMove: the staged directory of a request of any kind moved to a      *)
(* destination path at which nothing, a file or a directory exists.        *)
(***************************************************************************)
\* The staged root is the directory _download_content made for the request
\* (lines 195-196), with whatever the transfer wrote into it.
StagedDirs ==
    {Folder(t) : t \in TreesOver({"Album", "a.flac"},
                                 {File("new")} \cup {Folder(a) : a \in TreesWith("new")})}

InitMove ==
    /\ pStage \in [ct : ContentTypes, root : StagedDirs]
    /\ pDest \in {NoNode, File("old")} \cup {Folder(t) : t \in TreesWith("old")}
    /\ pOut = <<>>
    /\ pAgain = <<>>
    /\ CleanIdle /\ SearchIdle /\ AcquireIdle /\ PipeIdle /\ LimiterIdle /\ MoreIdle

MovePayload ==
    /\ pOut = <<>>
    /\ pOut' = move_payload(pStage.ct, pStage.root, pDest)
    /\ UNCHANGED <<pStage, pDest, pAgain, cleanVars, searchVars, acquireVars, pipeVars,
                   intakeVars, limiterVars, moreVars>>

NextMove == MovePayload

SpecMove == InitMove /\ [][NextMove]_vars

\* C30: a staged root that is not pre-structured is placed successfully
\* whenever the destination does not exist or is a directory, and after a
\* successful placement the destination is exactly the staged root, with
\* nothing of what was there before.
C30_ReplacedWholesale ==
    (pOut # <<>> /\ ~PreStructured(pStage.ct, pStage.root)) =>
        /\ pOut.ok <=> pDest.kind # "file"
        /\ pOut.ok => pOut.node = pStage.root

\* A song whose staged directory holds a subdirectory has replaced a
\* destination directory that held files.
C30_Witness ==
    /\ pOut # <<>> /\ pOut.ok
    /\ pStage.ct = "song" /\ TopFolders(pStage.root.items) # {}
    /\ pDest.kind = "dir" /\ DOMAIN pDest.items # {}
    /\ pOut.node = pStage.root

\* The files under a directory, each as its path below the directory and its
\* data.
RECURSIVE FilesIn(_)
FilesIn(items) ==
    UNION {IF items[n].kind = "file" THEN {<<(<<n>>), items[n].data>>}
           ELSE {<<(<<n>>) \o f[1], f[2]>> : f \in FilesIn(items[n].items)} :
           n \in DOMAIN items}

\* C34: a placement treats the staged root as pre-structured exactly when
\* the request was acquired with the multi-item transfer (album and artist
\* requests) and the staged root has a directory at its top level.
C34_PreStructuredIffMultiItem ==
    pOut # <<>> =>
        (PreStructured(pStage.ct, pStage.root)
            <=> (MultiItem(pStage.ct) /\ TopFolders(pStage.root.items) # {}))

\* C35: after a successful placement every file of the staged root is under
\* the final path: as many of the transfer's files are there as the staged
\* root held.
C35_NoStagedFileLeftBehind ==
    (pOut # <<>> /\ pOut.ok) =>
        Cardinality({f \in FilesIn(pOut.node.items) : f[2] = "new"})
            = Cardinality(FilesIn(pStage.root.items))

(***************************************************************************)
(* SpecPath: _build_destination_path applied to one request, for artist,   *)
(* title and album values with separators, dots and invalid characters,    *)
(* and for several patterns.                                               *)
(***************************************************************************)
\* Values a client can send as artist, title or album (create_request takes
\* them from the request body as they are).
PathValues ==
    {<<"a">>, <<"a", ":">>, <<".">>, <<" ", "a", ".">>, <<"/", "a">>, <<"a", "/", "b">>,
     <<".", ".", "/", "a">>,
     <<"a", "/", ".", ".", "/", ".", ".", "/", ".", ".", "/", "b">>}

Patterns ==
    {PathPattern,
     <<"{artist}", "/", "{album}", "/", "{title}">>,
     <<"{title}">>}

InitPath ==
    /\ pStage \in [artist : PathValues \cup {None}, title : PathValues,
                   album : PathValues \cup {None}, pattern : Patterns]
    /\ pDest = <<>>
    /\ pOut = <<>>
    /\ pAgain = <<>>
    /\ CleanIdle /\ SearchIdle /\ AcquireIdle /\ PipeIdle /\ LimiterIdle /\ MoreIdle

BuildDestinationPath ==
    /\ pOut = <<>>
    /\ pOut' = destination_path(pStage.pattern, pStage)
    /\ UNCHANGED <<pStage, pDest, pAgain, cleanVars, searchVars, acquireVars, pipeVars,
                   intakeVars, limiterVars, moreVars>>

NextPath == BuildDestinationPath

SpecPath == InitPath /\ [][NextPath]_vars

\* How deep below the directory it starts in a relative path ends, its
\* components read from the left: ".." goes one up, "." and an empty
\* component stay, any other component goes one down.  -1 as soon as the
\* path has gone above the start.
RECURSIVE Climb(_, _, _)
Climb(path, cur, depth) ==
    LET after == IF cur = <<".", ".">> THEN depth - 1
                 ELSE IF cur \in {<<>>, <<".">>} THEN depth
                 ELSE depth + 1
    IN  IF depth < 0 THEN -1
        ELSE IF path = <<>> THEN (IF after < 0 THEN -1 ELSE after)
        ELSE IF path[1] = "/" THEN Climb(Tail(path), <<>>, after)
        ELSE Climb(Tail(path), cur \o <<path[1]>>, depth)

\* The path begins with the output root and never leaves it.
InsideOutputRoot(path) ==
    /\ path # <<>>
    /\ path[1] = MusicOutputPath
    /\ Climb(Tail(path), <<>>, 0) >= 0

\* C36: for every artist, title and album and every pattern, the
\* destination path _build_destination_path computes lies inside the
\* configured output root.
C36_InsideOutputRoot == pOut # <<>> => InsideOutputRoot(pOut)

(***************************************************************************)
(* SpecLimiter: up to MaxTransfers transfers in each of two event loops    *)
(* and outside any loop entering and leaving the limiter, for every        *)
(* setting of concurrency and max_connections.                             *)
(***************************************************************************)
InitLimiter ==
    /\ lConf \in [concurrency : BOOLEAN, max_connections : -1..MaxConnections]
    /\ lSems = <<>>
    /\ lHeld = {}
    /\ CleanIdle /\ SearchIdle /\ AcquireIdle /\ PipeIdle /\ PlaceIdle /\ MoreIdle

Entered == \E ctx \in Loops \cup {NoLoop}, t \in 1..MaxTransfers : Enter(ctx, t)

Left == \E ctx \in Loops \cup {NoLoop}, t \in 1..MaxTransfers : Leave(ctx, t)

NextLimiter == Entered \/ Left

SpecLimiter == InitLimiter /\ [][NextLimiter]_vars

\* The transfers of a context that are inside the limiter.
Holders(ctx) == {h \in lHeld : h.ctx = ctx}

\* C14: with a positive max_connections, the transfers of one event loop
\* that hold the limiter are never more than the capacity (max_connections,
\* or 1 when concurrency is off), and a transfer of a loop that holds fewer
\* than that can enter, whatever the other loop holds.
C14_PerLoopCapacity ==
    lConf.max_connections > 0 =>
        LET capacity == IF lConf.concurrency THEN lConf.max_connections ELSE 1
        IN  \A loop \in Loops :
                /\ Cardinality(Holders(loop)) <= capacity
                /\ Cardinality(Holders(loop)) < capacity => CanProceed(loop)

\* C14 witness: one loop holds as many slots as the capacity of two allows
\* and can take no more, while the other loop holds one and can enter.
C14_Witness ==
    /\ lConf.concurrency /\ lConf.max_connections = 2
    /\ Cardinality(Holders("loop1")) = 2 /\ ~CanProceed("loop1")
    /\ Cardinality(Holders("loop2")) = 1 /\ CanProceed("loop2")

\* C15 as claimed: with max_connections zero or negative no transfer of a
\* loop waits for the limiter, however many hold it.
C15_NonPositiveUnlimited ==
    (lConf.concurrency /\ lConf.max_connections <= 0) =>
        \A loop \in Loops : CanProceed(loop)

(***************************************************************************)
(* Spec: the pipeline on the requests intake has accepted, run by up to    *)
(* MaxRuns background units, any of them for any request id.               *)
(***************************************************************************)
\* The rows intake has inserted: any kind, one of two titles that share a
\* destination path, no artist, any acquisition identity.
PendingRows == {NewRow(ct, t, None, i[1], i[2]) :
                  ct \in ContentTypes, t \in {<<"a", ".">>}, i \in IntakeIdentities}

Init ==
    /\ rows \in [1..MaxReqs -> PendingRows]
    /\ runs = [u \in Units |-> IdleRun]
    /\ fs = <<>>
    /\ seen = [i \in 1..MaxReqs |-> {"pending"}]
    /\ picard \in BOOLEAN
    /\ logged = NothingLogged
    /\ socketio = NoValue
    /\ events = <<>>
    /\ library = <<>>
    /\ availSeen = {}
    /\ CleanIdle /\ SearchIdle /\ AcquireIdle /\ RestIdle

Start == \E u \in Units, id \in 1..(MaxReqs + 1) : StartProcess(u, id)

Searched == \E u \in Units : SearchEnd(u)

Matched == \E u \in Units : MbStep(u)

Downloaded == \E u \in Units : DownloadEnd(u)

Tagged == \E u \in Units : Metadata(u)

Placed == \E u \in Units : Place(u)

Completed == \E u \in Units : Complete(u)

Next == Start \/ Searched \/ Matched \/ Downloaded \/ Tagged \/ Placed \/ Completed

Spec == Init /\ [][Next]_vars

\* C1 as claimed: once the persisted status of a request is COMPLETED or
\* FAILED, no step changes it, whatever process_request calls follow.
C1_TerminalIsFinal ==
    [][\A r \in DOMAIN rows :
          rows[r].status \in Terminal => rows'[r].status = rows[r].status]_vars

\* The place of a status in PENDING, SEARCHING, DOWNLOADING, PROCESSING,
\* COMPLETED; FAILED comes after every status it may follow.
Rank(status) ==
    CASE status = "pending" -> 0
      [] status = "searching" -> 1
      [] status = "downloading" -> 2
      [] status = "processing" -> 3
      [] status = "completed" -> 4
      [] status = "failed" -> 4

\* C2 as claimed: the persisted status of a request only moves forward along
\* PENDING, SEARCHING, DOWNLOADING, PROCESSING, COMPLETED or to FAILED: it is
\* never followed by an earlier status, DOWNLOADING is persisted only after
\* SEARCHING was, and COMPLETED only after DOWNLOADING was.
C2_StrictOrder ==
    [][\A r \in DOMAIN rows :
          rows'[r].status # rows[r].status =>
              /\ Rank(rows'[r].status) > Rank(rows[r].status)
              /\ rows'[r].status = "downloading" => "searching" \in seen[r]
              /\ rows'[r].status = "completed" => "downloading" \in seen[r]]_vars

\* The process_request calls made for request r.
RunsOf(r) == {u \in Units : runs[u].id = r}

\* C3 as claimed: when the process_request calls made for a request are all
\* over, each external call having returned or raised, the request is not
\* in SEARCHING, DOWNLOADING or PROCESSING.
C3_NotLeftActive ==
    \A r \in DOMAIN rows :
        (RunsOf(r) # {} /\ \A u \in RunsOf(r) : runs[u].pc = "done") =>
            rows[r].status \notin Active

\* C4 as claimed: a process_request call never ends with an exception, and
\* when it returns (False, message) for a request that exists, the request
\* is persisted as FAILED with that message as error_message.
C4_NothingEscapes ==
    [][\A u \in Units :
          (runs[u].pc # "done" /\ runs'[u].pc = "done") =>
              /\ runs'[u].ended # "raised"
              /\ (runs'[u].ended = "false" /\ runs'[u].id \in DOMAIN rows) =>
                    /\ rows'[runs'[u].id].status = "failed"
                    /\ rows'[runs'[u].id].error_message = logged'.error]_vars

\* The path lies under MUSIC_OUTPUT_PATH.
AtFinal(path) == path # NoPath /\ path[1] = MusicOutputPath

\* C13 as claimed: a request in SEARCHING, DOWNLOADING or FAILED has no
\* file_size and no download_path at the final location.
C13_AbsentBeforeCompleted ==
    \A r \in DOMAIN rows :
        rows[r].status \in {"searching", "downloading", "failed"} =>
            rows[r].file_size = -1 /\ ~AtFinal(rows[r].download_path)

\* C13 as the code has it: file_size and a download_path at the final
\* location are written only by the commit of a placement that succeeded
\* (line 321), which stores the destination path and the size of the files
\* there under the status the row has at that moment (DOWNLOADING, or
\* PROCESSING with Picard enabled); any other change of download_path sets
\* the request's staging directory, by a run that has ended its transfer.
C13_SetByPlacementOnly ==
    [][\A r \in DOMAIN rows :
          /\ (rows'[r].file_size # rows[r].file_size
              \/ (rows'[r].download_path # rows[r].download_path
                  /\ AtFinal(rows'[r].download_path))) =>
                /\ \E u \in RunsOf(r) : runs[u].pc = "placing" /\ runs'[u].pc = "completing"
                /\ rows'[r].download_path = build_destination_path(rows[r])
                /\ rows'[r].download_path \in DOMAIN fs'
                /\ rows'[r].file_size = TotalSize(fs'[rows'[r].download_path].files)
                /\ rows'[r].status = rows[r].status
          /\ (rows'[r].download_path # rows[r].download_path
              /\ ~AtFinal(rows'[r].download_path)) =>
                /\ rows'[r].download_path = TempPath(r)
                /\ \E u \in RunsOf(r) : runs[u].pc = "downloading" /\ runs'[u].pc # "downloading"]_vars

\* C13 witness: in its first run, with Picard disabled, a request is
\* DOWNLOADING with the final path and the size persisted.
C13_Witness ==
    \E r \in DOMAIN rows :
        /\ ~picard
        /\ rows[r].status = "downloading"
        /\ rows[r].file_size > 0
        /\ AtFinal(rows[r].download_path)
        /\ seen[r] \cap Terminal = {}

\* Both parts of the acquisition identity of a row are set.
Resolved(row) == ~NeedsSearch(row)

Identity(row) == <<row.streaming_service, row.streaming_url>>

\* C6 as claimed: once streaming_service or streaming_url of a request is
\* set, no step changes either of them.
C6_AnyPartIsKept ==
    [][\A r \in DOMAIN rows :
          (rows[r].streaming_service # NoValue \/ rows[r].streaming_url # NoValue) =>
              Identity(rows'[r]) = Identity(rows[r])]_vars

\* C6 as the code has it: a process_request call that begins when both
\* streaming_service and streaming_url are set starts no search, and the two
\* are then changed only by the end of a search that another call began
\* while one of them was unset; such a search overwrites both.
C6_KeptOnceResolved ==
    [][\A r \in DOMAIN rows :
          Resolved(rows[r]) =>
              /\ \A u \in Units :
                    (runs[u].pc = "idle" /\ runs'[u].id = r) => runs'[u].pc # "searching"
              /\ (\A u \in RunsOf(r) : runs[u].pc # "searching") =>
                    Identity(rows'[r]) = Identity(rows[r])]_vars

\* C6 witness: a request that intake gave both parts has been through
\* resolution twice, once in a call that is over and once in a call that
\* has come to placement, and holds both parts as given.
C6_Witness ==
    \E r \in DOMAIN rows :
        /\ Identity(rows[r]) = <<"tidal", "id9">>
        /\ \E u \in RunsOf(r) : runs[u].pc = "done" /\ runs[u].ended = "true"
        /\ \E u \in RunsOf(r) : runs[u].pc = "placing"

\* C18: whichever way a background unit ends (process_request returned true,
\* returned false or raised), its database session has been removed; a unit
\* that is still at work holds its session.
C18_HandleReleased ==
    \A u \in Units :
        /\ runs[u].ended # "no" => (runs[u].pc = "done" /\ runs[u].handle = "released")
        /\ runs[u].pc \notin {"idle", "done"} => runs[u].handle = "held"
        /\ runs[u].pc = "idle" => runs[u].handle = "none"

\* Units have ended in two different ways, one of them with an exception,
\* and both have released their sessions.
C18_Witness ==
    \E u, v \in Units :
        /\ runs[u].ended = "raised" /\ runs[u].handle = "released"
        /\ runs[v].ended \in {"true", "false"} /\ runs[v].handle = "released"

\* C19: when an exception reaches run_process for an existing request, the
\* row is FAILED with the exception's message once the unit is over.
C19_RecordedAtBoundary ==
    [][\A u \in Units :
          (runs[u].pc # "done" /\ runs'[u].pc = "done" /\ runs'[u].ended = "raised"
             /\ runs'[u].id \in DOMAIN rows) =>
                /\ rows'[runs'[u].id].status = "failed"
                /\ rows'[runs'[u].id].error_message = logged'.exc]_vars

\* C20: no two units are at work on the same request id at once.
C20_OneRunPerRequest ==
    \A u, v \in Units :
        (u # v /\ runs[u].pc \notin {"idle", "done"} /\ runs[v].pc \notin {"idle", "done"})
            => runs[u].id # runs[v].id

\* C24: a run that has committed SEARCHING and then ends otherwise than
\* with success leaves the request FAILED, and a run in which the metadata
\* step failed ends with the request FAILED and not COMPLETED.
C24_FailureMeansFailed ==
    [][\A u \in Units :
          (runs[u].pc \notin {"idle", "done"} /\ runs'[u].pc = "done") =>
              /\ runs'[u].ended # "true" => rows'[runs'[u].id].status = "failed"
              /\ runs'[u].warned =>
                    (runs'[u].ended # "true" /\ rows'[runs'[u].id].status = "failed")]_vars

\* C33: a request whose persisted status is SEARCHING, DOWNLOADING or
\* PROCESSING has no error_message.
C33_ActiveHasNoError ==
    \A i \in DOMAIN rows : rows[i].status \in Active => rows[i].error_message = None

(***************************************************************************)
(* SpecEmit: the pipeline run by one unit at a time, by a DownloadService  *)
(* built with or without a socketio.                                       *)
(***************************************************************************)
InitEmit ==
    /\ rows \in [1..MaxReqs -> PendingRows]
    /\ runs = [u \in Units |-> IdleRun]
    /\ fs = <<>>
    /\ seen = [i \in 1..MaxReqs |-> {"pending"}]
    /\ picard \in BOOLEAN
    /\ logged = NothingLogged
    /\ socketio \in {NoValue, "socketio"}
    /\ events = <<>>
    /\ library = <<>>
    /\ availSeen = {}
    /\ CleanIdle /\ SearchIdle /\ AcquireIdle /\ RestIdle

StartAlone ==
    /\ \A v \in Units : runs[v].pc \in {"idle", "done"}
    /\ Start

NextEmit == StartAlone \/ Searched \/ Matched \/ Downloaded \/ Tagged \/ Placed \/ Completed

SpecEmit == InitEmit /\ [][NextEmit]_vars

\* The commits and publishes of a step come in pairs: a commit, then one
\* publish call for the same request and status.
Paired(evs) ==
    /\ Len(evs) % 2 = 0
    /\ \A i \in 1..Len(evs) :
          IF i % 2 = 1
          THEN /\ evs[i].ev = "commit"
               /\ evs[i + 1].ev = "emit"
               /\ evs[i + 1].id = evs[i].id
               /\ evs[i + 1].status = evs[i].status
          ELSE evs[i].ev = "emit"

\* The status a unit's request must have been committed with for the unit
\* to be where it is.
CommittedFor(pc) ==
    CASE pc \in {"searching", "matching"} -> {"searching"}
      [] pc = "downloading" -> {"downloading"}
      [] pc \in {"tagging", "placing", "completing"} ->
             {IF picard THEN "processing" ELSE "downloading"}
      [] OTHER -> Statuses

\* C16 as the code has it: every change of a persisted status is a commit
\* of the step, made before the unit goes on to the work that depends on
\* it, and each such commit is followed at once by exactly one call of the
\* publisher for that request and status; the call reaches a broadcaster
\* exactly when the service was built with a socketio.
C16_CommittedThenOneCall ==
    [][/\ Paired(events')
       /\ \A i \in 1..Len(events') :
             events'[i].ev = "emit" =>
                 (events'[i].outcome = "no_socketio" <=> socketio = NoValue)
       /\ \A id \in DOMAIN rows :
             rows'[id].status # rows[id].status =>
                 /\ events' # <<>>
                 /\ events'[Len(events')].id = id
                 /\ events'[Len(events')].status = rows'[id].status
       /\ \A u \in Units :
             runs'[u].pc \notin {"idle", "done"} =>
                 rows'[runs'[u].id].status \in CommittedFor(runs'[u].pc)]_vars

\* C16 as stated: every committed transition is followed by one publish of
\* the snapshot to the broadcaster.
C16_PublishedToBroadcaster ==
    \A i \in 1..Len(events) :
        events[i].ev = "commit" =>
            /\ i < Len(events)
            /\ events[i + 1].ev = "emit"
            /\ events[i + 1].outcome \in {"sent", "raised"}

\* PROCESSING has just been committed and published through the socketio,
\* and the unit has gone on to the metadata step.
C16_Witness ==
    \E u \in Units :
        /\ runs[u].pc = "tagging"
        /\ events = Transition(runs[u].id, "processing", "sent")
        /\ rows[runs[u].id].status = "processing"

\* Where the pipeline stands after it has committed `status`.
AfterCommit(status, row) ==
    CASE status = "searching" -> {StartSearch(row)}
      [] status = "downloading" -> {"downloading"}
      [] status = "processing" -> {"tagging"}
      [] OTHER -> {"done"}

\* C17: whether the publish after a commit is sent, raises or cannot be made
\* for want of a socketio, the committed status stays persisted, no
\* exception leaves the step and the unit stands where the pipeline goes
\* after that commit.
C17_PublishNeverMatters ==
    [][\A u \in Units :
          (runs'[u] # runs[u] /\ events' # <<>>) =>
              LET last == events'[Len(events')]
              IN  /\ last.id = runs'[u].id
                  /\ rows'[last.id].status = last.status
                  /\ runs'[u].pc \in AfterCommit(last.status, rows'[last.id])
                  /\ runs'[u].ended # "raised"
                  /\ logged'.exc = None \/ logged'.unit # u]_vars

\* The publish of DOWNLOADING raised, the row says DOWNLOADING and the unit
\* is downloading.
C17_Witness ==
    \E u \in Units :
        /\ runs[u].pc = "downloading"
        /\ events = Transition(runs[u].id, "downloading", "raised")
        /\ rows[runs[u].id].status = "downloading"

\* C37: a run started for an id without a row, whose lookup at line 63
\* answers, ends at once with (False, "Request not found"); no row is
\* changed and nothing is published.
C37_NotFoundChangesNothing ==
    [][\A u \in Units :
          (runs[u].pc = "idle" /\ runs'[u].pc # "idle" /\ runs'[u].id \notin DOMAIN rows
              /\ runs'[u].ended # "raised") =>
              /\ runs'[u].pc = "done" /\ runs'[u].ended = "false"
              /\ logged' = [unit |-> u, ok |-> FALSE, error |-> <<"Request not found">>,
                            exc |-> None]
              /\ rows' = rows
              /\ events' = <<>>]_vars

\* A run for an id without a row is over, with a broadcaster configured and
\* after an earlier run of request 1 has failed.
C37_Witness ==
    \E u \in Units :
        /\ runs[u].pc = "done" /\ runs[u].id \notin DOMAIN rows /\ runs[u].ended = "false"
        /\ logged.unit = u /\ logged.error = <<"Request not found">>
        /\ events = <<>>
        /\ socketio # NoValue
        /\ rows[1].status = "failed"

\* The request's staging directory holds no file.
StagingEmpty(files, id) == TempPath(id) \notin DOMAIN files \/ files[TempPath(id)].files = {}

\* C40: a run goes on from the transfer to the metadata step or to
\* placement only when the request's staging directory holds a file after
\* the transfer; when it holds none, the request becomes FAILED and the
\* step does not set download_path.
C40_NoFilesMeansFailed ==
    [][\A u \in Units :
          (runs[u].pc = "downloading" /\ runs'[u].pc # "downloading") =>
              LET id == runs[u].id
              IN  /\ runs'[u].pc \in {"tagging", "placing"} => ~StagingEmpty(fs', id)
                  /\ StagingEmpty(fs', id) =>
                        /\ rows'[id].status = "failed"
                        /\ rows'[id].download_path = rows[id].download_path]_vars

(***************************************************************************)
(* SpecShared: as many requests as units, all with the same title and no   *)
(* artist and so with one destination path, each run by its own unit; the  *)
(* runs have all committed DOWNLOADING and their transfers are under way.  *)
(***************************************************************************)
SharedRows ==
    {[NewRow(ct, <<"a", ".">>, None, "tidal", "id9") EXCEPT !.status = "downloading"] :
        ct \in ContentTypes}

InitShared ==
    /\ rows \in [Units -> SharedRows]
    /\ runs = [u \in Units |-> [IdleRun EXCEPT !.pc = "downloading", !.id = u,
                                                !.handle = "held"]]
    /\ fs = [p \in {TempPath(u) : u \in Units} |-> Dir(FALSE, {})]
    /\ seen = [i \in Units |-> {"pending", "searching", "downloading"}]
    /\ picard \in BOOLEAN
    /\ logged = NothingLogged
    /\ socketio = NoValue
    /\ events = Transition(1, "downloading", "no_socketio")
    /\ library = <<>>
    /\ availSeen = {}
    /\ CleanIdle /\ SearchIdle /\ AcquireIdle /\ RestIdle

NextShared == Downloaded \/ Tagged \/ Placed \/ Completed

SpecShared == InitShared /\ [][NextShared]_vars

\* The size of the files at a path, 0 when nothing is there.
SizeAt(path) == IF path \in DOMAIN fs THEN TotalSize(fs[path].files) ELSE 0

\* C39: when requests with one destination path are run at the same time,
\* every request is COMPLETED or FAILED once all runs are over, and every
\* COMPLETED request's final path exists and holds files of the total size
\* recorded as its file_size.
C39_SharedDestinationKept ==
    (\A i, j \in DOMAIN rows : build_destination_path(rows[i]) = build_destination_path(rows[j]))
    =>  /\ (\A u \in Units : runs[u].pc = "done") =>
              \A i \in DOMAIN rows : rows[i].status \in Terminal
        /\ \A i \in DOMAIN rows :
              rows[i].status = "completed" =>
                  /\ rows[i].download_path \in DOMAIN fs
                  /\ SizeAt(rows[i].download_path) = rows[i].file_size

(***************************************************************************)
(* SpecIntake: intake, library sync and pipeline starts.                   *)
(***************************************************************************)
InitIntake ==
    /\ rows = <<>>
    /\ runs = [u \in Units |-> IdleRun]
    /\ fs = <<>>
    /\ seen = <<>>
    /\ picard = TRUE
    /\ logged = NothingLogged
    /\ socketio = NoValue
    /\ events = <<>>
    /\ library = <<>>
    /\ availSeen = {}
    /\ CleanIdle /\ SearchIdle /\ AcquireIdle /\ RestIdle

\* What is asked for at intake: a song or an album by title, with or without
\* a streaming identity.
Intake ==
    \E ct \in {"song", "album"}, t \in {<<"a">>, <<"a", ".">>},
       i \in {<<NoValue, NoValue>>, <<"tidal", "id9">>} :
        CreateRequest(ct, t, None, i[1], i[2])

NextIntake == Intake \/ SyncLibrary \/ Start

SpecIntake == InitIntake /\ [][NextIntake]_vars

\* C5 as claimed: a PENDING request for content that the availability check
\* has reported as existing stays PENDING.
C5_AvailableStaysPending ==
    [][\A r \in DOMAIN rows :
          (<<rows[r].title, rows[r].artist>> \in availSeen /\ rows[r].status = "pending") =>
              rows'[r].status = "pending"]_vars

\* C5 as the code has it: the availability check is made by create_request
\* alone: a row is inserted only when the check, on the library as it is
\* then, reports the content absent, and a report that it exists inserts
\* nothing; process_request makes no check.
C5_CheckedAtIntakeOnly ==
    [][/\ \A r \in DOMAIN rows' \ DOMAIN rows :
             ~check_availability(rows'[r].title, rows'[r].artist)
       /\ availSeen' # availSeen => rows' = rows]_vars

\* C5 witness: the check reported content as existing and inserted nothing
\* for it, and a request for the same content, inserted before the library
\* had it, has been started.
C5_Witness ==
    \E r \in DOMAIN rows :
        /\ <<rows[r].title, rows[r].artist>> \in availSeen
        /\ rows[r].status = "searching"

====
